---------------------------- MODULE Spec2Model ----------------------------
(***************************************************************************)
(* The outbound API-access layer of anivault (api.js): the ResponseCache,   *)
(* the RateLimiter dispatch queue, the retrying transport fetchWithRetry   *)
(* and the facade jikanGet that ties them together.                        *)
(*                                                                         *)
(* One action is one run of JavaScript from a resumption point to the next *)
(* await: the event loop runs such a piece to completion, and promise      *)
(* continuations (microtasks) run before any timer, network or caller      *)
(* event, so the settlement of task() and the resumption of the drain loop *)
(* that awaits it are one step.                                            *)
(*                                                                         *)
(* Time is Date.now() in milliseconds, taken to run forward in steps of    *)
(* one tick.  A timer never fires before its deadline and may fire late;   *)
(* an answer of the network may come at any time.  A unit of work is named *)
(* by the ordinal of the call that created it.  Where the limiter and the   *)
(* transport are driven directly (Spec, SpecRetry) unit u fetches URL u;   *)
(* under jikanGet (SpecGet) each call picks its URL and options.           *)
(***************************************************************************)
EXTENDS Integers, Sequences, FiniteSets, TLC

\* ---- program constants
MIN_INTERVAL_MS == 350
MAX_RETRIES == 3
BASE_BACKOFF_MS == 1000
\* new ResponseCache(): defaultTTL = 5 * 60 * 1000
DEFAULT_TTL_MS == 300000
\* the cacheTTL of getAnimeById and getAnimeRecommendations
ANIME_TTL_MS == 1800000
\* the cacheTTL of getGenres: 24 * 60 * 60 * 1000
GENRES_TTL_MS == 86400000

\* ---- bounds of the model
\* Spec: the limiter under several calls, on a fine clock over a short horizon
MaxUnits == 3
TickMs == 175
StartTime == 1000
MaxTime == 3500
\* SpecRetry: one call on an idle limiter, over a horizon that lets it use up
\* its retries
RetryTickMs == 250
RetryMaxTime == 9000
\* SpecGet: jikanGet calls over the cache, the limiter and the transport, on a
\* coarse clock that reaches the expiry of a cache entry
MaxUrls == 2
GetCalls == 2
GetTickMs == 200000
GetTicks == 2
\* SpecGetRetry: one jikanGet call, over enough ticks to use up its retries
GetRetryTicks == 3
\* SpecCache: get, set and clear of the ResponseCache called directly
CacheTickMs == 150000
CacheTicks == 3
MaxSets == 3
\* SpecGenres: getGenres, jikanGet and clearCache calls, on a clock that passes
\* the 24 hours of the genre entry
GenresCalls == 3
GenresTickMs == 50000000
GenresTicks == 2
\* SpecSearch: performSearch calls of the search page
SearchCalls == 3
SearchTickMs == 200000
SearchTicks == 2
\* SpecLive: jikanGet calls under fair scheduling, on a clock that moves only
\* while a timer is pending, by more than the longest wait
LiveCalls == 2
LiveTickMs == 5000

Units == 1..MaxUnits
\* Math.random() * 500 lies in [0, 500)
Jitters == {0, 499}
\* what the server may answer: a status, and whether the body can be read
\* and parsed (the body of a 429 is never read)
Responses ==
    [status : {200, 404, 503}, bodyOk : BOOLEAN] \cup {[status |-> 429, bodyOk |-> TRUE]}
NoResponse == [status |-> 0, bodyOk |-> FALSE]
\* the request URLs; the resource at the last one is a falsy JSON document
\* (null, false, 0 or ""), the others are objects
Urls == 1..MaxUrls
FalsyUrls == {MaxUrls}

VARIABLES
    now,              \* Date.now()
    queue,            \* RateLimiter._queue: the units waiting, head first
    processing,       \* RateLimiter._processing
    lastRequestTime,  \* RateLimiter._lastRequestTime
    drain,            \* the _processQueue invocation started by each enqueue call
    task,             \* the fetchWithRetry call chain of each unit
    fut,              \* the promise returned by each enqueue call
    dispatched,       \* history: the units in the order they were dispatched
    sinceFetch,       \* history: the time since the latest fetch() call, counted up to MIN_INTERVAL_MS
    cache,            \* ResponseCache._store
    call,             \* the jikanGet call of each ordinal
    got,              \* SpecCache: the latest cache.get call and what it returned
    lastSet,          \* SpecCache, history: the latest cache.set on each key since the latest clear
    genresCache,      \* _genresCache
    params,           \* SpecUrl: the params object the caller passes to buildUrl
    built,            \* SpecUrl: the query of the URL that buildUrl returned
    search,           \* state.search of the page script
    perform,          \* SpecSearch: the performSearch call of each ordinal
    document          \* the ids of the elements the document holds

vars == <<now, queue, processing, lastRequestTime, drain, task, fut, dispatched, sinceFetch,
          cache, call, got, lastSet, genresCache, params, built,
                   search, perform, document>>

\* ---- values: undefined is 0 or ""
NoResult == [kind |-> "none", status |-> 0, url |-> 0, attempt |-> 0, msg |-> "", info |-> 0]
JsonData_First(url, a) ==
    [kind |-> "data", status |-> 0, url |-> url, attempt |-> 0, msg |-> "", info |-> 1]

\* the parsed JSON body answered to attempt a for url
JsonData(url, a) ==
    [kind |-> "data", status |-> 0, url |-> url, attempt |-> 0, msg |-> "", info |-> a]
RateLimitError(url, attempt) ==
    [kind |-> "RateLimitError", status |-> 429, url |-> url, attempt |-> attempt,
     msg |-> "Rate limited (429)", info |-> 0]
\* info: 1 when the message carries the response body, 0 when text() failed
ApiError(msg, body, status, url) ==
    [kind |-> "ApiError", status |-> status, url |-> url, attempt |-> 0,
     msg |-> msg, info |-> body]
\* info: the attempt count in the message
NetworkError(attempts, url) ==
    [kind |-> "NetworkError", status |-> 0, url |-> url, attempt |-> 0,
     msg |-> "Network error after", info |-> attempts]
\* what fetch() rejects with, and what resp.json() rejects with
TypeError == [kind |-> "TypeError", status |-> 0, url |-> 0, attempt |-> 0, msg |-> "", info |-> 0]
SyntaxError == [kind |-> "SyntaxError", status |-> 0, url |-> 0, attempt |-> 0, msg |-> "", info |-> 0]

IsJikanError_OnlyRateLimit(r) == r.kind = "RateLimitError"

IsJikanError_Any(r) == TRUE

\* err instanceof JikanError
IsJikanError(r) == r.kind \in {"RateLimitError", "ApiError", "NetworkError"}

\* what cache.get returns for no entry
Null == [kind |-> "null", status |-> 0, url |-> 0, attempt |-> 0, msg |-> "", info |-> 0]
\* a ttl argument: left out, or a number of milliseconds
Undefined == [given |-> FALSE, ms |-> 0]
Millis(n) == [given |-> TRUE, ms |-> n]

IdleDrain == [pc |-> "none", cur |-> 0, wake |-> 0]
\* attempt, resp, timer: the locals of the current frame (at "done": of the
\* last one).  History of the call chain: runs (task() calls), fetches
\* (fetch() calls), waits (backoff waits), n429 (attempts answered with a 429),
\* backoffs (the length in ms of each backoff wait, in order).
NewTask ==
    [pc |-> "none", attempt |-> 0, resp |-> NoResponse, timer |-> 0,
     runs |-> 0, fetches |-> 0, waits |-> 0, n429 |-> 0, backoffs |-> <<>>]
NewFuture == [state |-> "none", value |-> NoResult, calls |-> 0]

NoEntry == [present |-> FALSE, data |-> Null, expires |-> 0]
\* pc: "none", "waiting" (at await rateLimiter.enqueue), "returned", "threw";
\* of a getGenres call (genres) also "hit" and "fetched": at await jikanGet,
\* whose future is fulfilled from the cache, or from the network
NewCall == [pc |-> "none", url |-> 0, skipCache |-> FALSE, cacheTTL |-> Undefined,
            out |-> NoResult, genres |-> FALSE]
NoGet == [key |-> 0, value |-> Null, at |-> 0]
NeverSet == [live |-> FALSE, value |-> Null, at |-> 0, ttl |-> Undefined, n |-> 0]

\* a JavaScript value: its type t and the string s that String(value) gives
JsUndefined == [t |-> "undefined", s |-> "undefined"]
JsNull == [t |-> "null", s |-> "null"]
JsString(x) == [t |-> "string", s |-> x]
JsZero == [t |-> "number", s |-> "0"]
JsFalse == [t |-> "boolean", s |-> "false"]
ParamValues ==
    {JsUndefined, JsNull, JsString(""), JsString("false"), JsString("true"),
     JsString("naruto"), JsZero, JsFalse}
\* the keys a params object may have
Keys == {"q", "page", "sfw"}
\* a key of a params object: not an own property, or one with a value
Absent == [has |-> FALSE, val |-> JsUndefined]
Own(v) == [has |-> TRUE, val |-> v]
\* the params object {}
NoParams == [k \in Keys |-> Absent]
\* a key of url.searchParams: not set, or set to a string
NoParam == [set |-> FALSE, s |-> ""]
Param(x) == [set |-> TRUE, s |-> x]
\* no buildUrl call yet; after one: the params as passed (from) and the query
\* of the URL returned
NotBuilt == [done |-> FALSE, from |-> NoParams, query |-> [k \in Keys |-> NoParam]]

\* the url the task of unit u was created with
UrlOf(u) == call[u].url

\* state.search as the script creates it: no results, not loading
NewSearch == [results |-> <<>>, loading |-> FALSE]
\* a performSearch call: where it stands, its append argument, the jikanGet
\* call it awaits, and whether it set state.search.loading
NewPerform == [pc |-> "none", append |-> FALSE, call |-> 0, setFlag |-> FALSE]
\* the elements performSearch looks up
Elements == {"searchResults"}

InitLimiter ==
    /\ now = StartTime
    /\ queue = <<>>
    /\ processing = FALSE
    /\ lastRequestTime = 0
    /\ drain = [d \in Units |-> IdleDrain]
    /\ task = [u \in Units |-> NewTask]
    /\ fut = [u \in Units |-> NewFuture]
    /\ dispatched = <<>>
    /\ sinceFetch = MIN_INTERVAL_MS
    /\ cache = [k \in Urls |-> NoEntry]
    /\ got = NoGet
    /\ lastSet = [k \in Urls |-> NeverSet]
    /\ genresCache = Null
    /\ search = NewSearch
    /\ perform = [p \in Units |-> NewPerform]

\* the limiter driven directly: the task of unit u fetches URL u
Init ==
    /\ InitLimiter
    /\ call = [u \in Units |-> [NewCall EXCEPT !.url = u]]
    /\ params = NoParams
    /\ built = NotBuilt
    /\ document = Elements

\* no jikanGet call made yet
InitGet ==
    /\ InitLimiter
    /\ call = [u \in Units |-> NewCall]
    /\ params = NoParams
    /\ built = NotBuilt
    /\ document = Elements

\* ---- RateLimiter
MayStartDrain_Always(p) == TRUE

MayStartDrain_Never(p) == FALSE

\* the guard of _processQueue: a drain loop starts only when none is active
MayStartDrain(p) == ~p

Shift_Last(q) == [head |-> q[Len(q)], rest |-> SubSeq(q, 1, Len(q) - 1)]

Shift_Keep(q) == [head |-> Head(q), rest |-> q]

Shift_Second(q) ==
    IF Len(q) >= 2 THEN [head |-> q[2], rest |-> <<q[1]>> \o SubSeq(q, 3, Len(q))]
    ELSE [head |-> Head(q), rest |-> Tail(q)]

\* queue.shift(): the element taken and the queue left
Shift(q) == [head |-> Head(q), rest |-> Tail(q)]

SpacingDelay_None(t, last) == 0

SpacingDelay_Full(t, last) == MIN_INTERVAL_MS

\* the spacing wait before a dispatch, 0 for none
SpacingDelay(t, last) ==
    LET elapsed == t - last
    IN  IF elapsed < MIN_INTERVAL_MS THEN MIN_INTERVAL_MS - elapsed ELSE 0

TaskErrorCaught_Never(err) == FALSE

\* try { await task() } catch (err) { reject(err) } catches whatever task() throws
TaskErrorCaught(err) == TRUE

Settle_Drop(f, u, v) == f

Settle_Resolve(f, u, v) ==
    [f EXCEPT ![u] =
        IF @.state = "pending"
        THEN [state |-> "resolved", value |-> v, calls |-> @.calls + 1]
        ELSE [@ EXCEPT !.calls = @ + 1]]

\* resolve(v) or reject(v) on the promise of unit u: a settled promise stays as it is
Settle(f, u, v) ==
    [f EXCEPT ![u] =
        IF @.state = "pending"
        THEN [state |-> IF v.kind = "data" THEN "resolved" ELSE "rejected",
              value |-> v, calls |-> @.calls + 1]
        ELSE [@ EXCEPT !.calls = @ + 1]]

\* task(): fetchWithRetry(url) with attempt = 1, up to its await fetch(url)
StartTask(tk) ==
    [tk EXCEPT !.pc = "fetch", !.attempt = 1, !.resp = NoResponse,
               !.runs = @ + 1, !.fetches = @ + 1]

\* _lastRequestTime = Date.now(); await task()
Dispatch(d, u, t, dr) ==
    /\ lastRequestTime' = now
    /\ dispatched' = Append(dispatched, u)
    /\ sinceFetch' = 0
    /\ drain' = [dr EXCEPT ![d] = [pc |-> "exec", cur |-> u, wake |-> 0]]
    /\ task' = [t EXCEPT ![u] = StartTask(@)]

QueueNotEmpty_One(q) == Len(q) = 1

\* while (this._queue.length > 0)
QueueNotEmpty(q) == Len(q) > 0

\* the while loop of drain d from its test, with q the queue, p the flag,
\* t the tasks and f the promises at that point
DrainFrom(d, q, p, t, f) ==
    /\ fut' = f
    /\ IF QueueNotEmpty(q)
       THEN LET s == Shift(q)
                delay == SpacingDelay(now, lastRequestTime)
            IN  /\ queue' = s.rest
                /\ processing' = p
                /\ IF delay > 0
                   THEN /\ drain' = [drain EXCEPT ![d] =
                                        [pc |-> "spacing", cur |-> s.head, wake |-> now + delay]]
                        /\ task' = t
                        /\ UNCHANGED <<lastRequestTime, dispatched, sinceFetch>>
                   ELSE Dispatch(d, s.head, t, drain)
       ELSE /\ queue' = q
            /\ processing' = FALSE
            /\ drain' = [drain EXCEPT ![d] = IdleDrain]
            /\ task' = t
            /\ UNCHANGED <<lastRequestTime, dispatched, sinceFetch>>

NotEnqueued == {u \in Units : fut[u].state = "none"}
Enqueued == Units \ NotEnqueued

\* enqueue(task) of unit u: push, then _processQueue() up to its first await
EnqueueUnit(u) ==
    LET q == Append(queue, u)
        f == [fut EXCEPT ![u].state = "pending"]
    IN  IF MayStartDrain(processing)
        THEN DrainFrom(u, q, TRUE, task, f)
        ELSE /\ queue' = q
             /\ fut' = f
             /\ UNCHANGED <<processing, lastRequestTime, drain, task, dispatched, sinceFetch>>

\* an enqueue call made directly: the next one of at most limit
Enqueue(limit) ==
    /\ Cardinality(Enqueued) < limit
    /\ EnqueueUnit(CHOOSE x \in NotEnqueued : \A y \in NotEnqueued : x <= y)
    /\ UNCHANGED <<now, cache, call, got, lastSet, genresCache, params, built,
                   search, perform, document>>

\* the spacing timer of drain d fires
SpacingFires(d) ==
    /\ drain[d].pc = "spacing"
    /\ now >= drain[d].wake
    /\ Dispatch(d, drain[d].cur, task, drain)
    /\ UNCHANGED <<now, queue, processing, fut, cache, call, got, lastSet, genresCache, params, built,
                   search, perform, document>>

\* ---- fetchWithRetry
RespOk(status) == status >= 200 /\ status <= 299

Exhausted_Early(attempt) == attempt >= MAX_RETRIES

Exhausted_Late(attempt) == attempt > MAX_RETRIES + 1

\* the test that ends the retries
Exhausted(attempt) == attempt > MAX_RETRIES

NextAttempt_Same(attempt) == attempt

\* the attempt number of the recursive call
NextAttempt(attempt) == attempt + 1

Backoff_Linear(attempt, jitter) == BASE_BACKOFF_MS * attempt + jitter

\* BASE_BACKOFF_MS * Math.pow(2, attempt - 1) + Math.random() * 500
Backoff(attempt, jitter) == BASE_BACKOFF_MS * 2 ^ (attempt - 1) + jitter

Branch_ExhaustFirst(status, attempt) ==
    IF Exhausted(attempt)
    THEN IF status >= 500 THEN "serverError" ELSE "throwRateLimit"
    ELSE IF RespOk(status) THEN "json"
    ELSE IF status = 429 \/ status >= 500 THEN "retry"
    ELSE "clientError"

Branch_Retry4xx(status, attempt) ==
    IF RespOk(status) THEN "json"
    ELSE IF status = 429
         THEN IF Exhausted(attempt) THEN "throwRateLimit" ELSE "retry"
    ELSE IF Exhausted(attempt)
         THEN IF status >= 500 THEN "serverError" ELSE "clientError"
    ELSE "retry"

Branch_No5xxRetry(status, attempt) ==
    IF RespOk(status) THEN "json"
    ELSE IF status = 429
         THEN IF Exhausted(attempt) THEN "throwRateLimit" ELSE "retry"
    ELSE IF status >= 500 THEN "serverError"
    ELSE "clientError"

\* what the frame of this attempt does with a response
Branch(status, attempt) ==
    IF RespOk(status) THEN "json"
    ELSE IF status = 429
         THEN IF Exhausted(attempt) THEN "throwRateLimit" ELSE "retry"
    ELSE IF status >= 500
         THEN IF Exhausted(attempt) THEN "serverError" ELSE "retry"
    ELSE "clientError"

\* fetchWithRetry of unit u ends with res: the promise of task() settles and the
\* drain loop awaiting it resumes, settles the caller's promise and loops
Complete(u, res, t0) ==
    LET t == [t0 EXCEPT ![u].pc = "done", ![u].timer = 0]
        ds == {d \in Units : drain[d].pc = "exec" /\ drain[d].cur = u}
    IN  IF ds = {}
        THEN /\ task' = t
             /\ UNCHANGED <<queue, processing, lastRequestTime, drain, fut, dispatched, sinceFetch>>
        ELSE LET d == CHOOSE x \in ds : TRUE
             IN  IF res.kind = "data" \/ TaskErrorCaught(res)
                 THEN DrainFrom(d, queue, processing, t, Settle(fut, u, res))
                 ELSE /\ task' = t
                      /\ drain' = [drain EXCEPT ![d] = IdleDrain]
                      /\ UNCHANGED <<queue, processing, lastRequestTime, fut, dispatched, sinceFetch>>

Retry_Release(u, t0, jitter) ==
    LET t == [t0 EXCEPT ![u].pc = "backoff", ![u].waits = @ + 1,
                        ![u].timer = now + Backoff(t0[u].attempt, jitter),
                        ![u].backoffs = Append(@, Backoff(t0[u].attempt, jitter))]
        ds == {d \in Units : drain[d].pc = "exec" /\ drain[d].cur = u}
    IN  IF ds = {}
        THEN /\ task' = t
             /\ UNCHANGED <<queue, processing, lastRequestTime, drain, fut, dispatched, sinceFetch>>
        ELSE DrainFrom(CHOOSE d \in ds : TRUE, queue, processing, t, fut)

\* await setTimeout(backoff) before fetchWithRetry(url, attempt + 1)
Retry(u, t0, jitter) ==
    /\ task' = [t0 EXCEPT ![u].pc = "backoff", ![u].waits = @ + 1,
                          ![u].timer = now + Backoff(t0[u].attempt, jitter),
                          ![u].backoffs = Append(@, Backoff(t0[u].attempt, jitter))]
    /\ UNCHANGED <<queue, processing, lastRequestTime, drain, fut, dispatched, sinceFetch>>

\* the catch clause on an error that is no JikanError
OnOtherError(u, t0, jitter) ==
    IF Exhausted(t0[u].attempt)
    THEN Complete(u, NetworkError(t0[u].attempt, UrlOf(u)), t0)
    ELSE Retry(u, t0, jitter)

\* catch (err): a JikanError thrown in the try block is thrown on as it is
Caught(u, err, t0, jitter) ==
    IF IsJikanError(err) THEN Complete(u, err, t0) ELSE OnOtherError(u, t0, jitter)

\* fetch(url) rejects: no HTTP response
FetchRejects(u) ==
    /\ task[u].pc = "fetch"
    /\ \E j \in Jitters : Caught(u, TypeError, task, j)
    /\ UNCHANGED <<now, cache, call, got, lastSet, genresCache, params, built,
                   search, perform, document>>

\* fetch(url) resolves with response r
FetchResponds(u, r) ==
    /\ task[u].pc = "fetch"
    /\ LET t == [task EXCEPT ![u].resp = r,
                             ![u].n429 = IF r.status = 429 THEN @ + 1 ELSE @]
           b == Branch(r.status, task[u].attempt)
       IN  CASE b = "json" ->
                 /\ task' = [t EXCEPT ![u].pc = "json"]
                 /\ UNCHANGED <<queue, processing, lastRequestTime, drain, fut, dispatched, sinceFetch>>
             [] b = "throwRateLimit" ->
                 \E j \in Jitters : Caught(u, RateLimitError(UrlOf(u), task[u].attempt), t, j)
             [] b = "retry" ->
                 \E j \in Jitters : Retry(u, t, j)
             [] OTHER ->
                 /\ task' = [t EXCEPT ![u].pc = "text"]
                 /\ UNCHANGED <<queue, processing, lastRequestTime, drain, fut, dispatched, sinceFetch>>
    /\ UNCHANGED <<now, cache, call, got, lastSet, genresCache, params, built,
                   search, perform, document>>

\* resp.json() settles
JsonSettles(u) ==
    /\ task[u].pc = "json"
    /\ IF task[u].resp.bodyOk
       THEN Complete(u, JsonData(UrlOf(u), task[u].attempt), task)
       ELSE \E j \in Jitters : Caught(u, SyntaxError, task, j)
    /\ UNCHANGED <<now, cache, call, got, lastSet, genresCache, params, built,
                   search, perform, document>>

\* resp.text().catch(() => '') settles and the ApiError is thrown
TextSettles(u) ==
    /\ task[u].pc = "text"
    /\ LET st == task[u].resp.status
           body == IF task[u].resp.bodyOk THEN 1 ELSE 0
       IN  \E j \in Jitters :
               Caught(u, ApiError(IF st >= 500 THEN "Server error" ELSE "Client error",
                                  body, st, UrlOf(u)), task, j)
    /\ UNCHANGED <<now, cache, call, got, lastSet, genresCache, params, built,
                   search, perform, document>>

\* the backoff timer fires: fetchWithRetry(url, attempt + 1) up to its await fetch(url)
BackoffFires(u) ==
    /\ task[u].pc = "backoff"
    /\ now >= task[u].timer
    /\ task' = [task EXCEPT ![u].pc = "fetch", ![u].attempt = NextAttempt(@), ![u].timer = 0,
                            ![u].resp = NoResponse, ![u].fetches = @ + 1]
    /\ sinceFetch' = 0
    /\ UNCHANGED <<now, queue, processing, lastRequestTime, drain, fut, dispatched,
                   cache, call, got, lastSet, genresCache, params, built,
                   search, perform, document>>

\* ---- time
Advance_FetchTimeout(step, horizon) ==
    /\ now + step <= horizon
    /\ now' = now + step
    /\ sinceFetch' = IF sinceFetch + step < MIN_INTERVAL_MS
                     THEN sinceFetch + step ELSE MIN_INTERVAL_MS
    /\ task' = [u \in Units |-> IF task[u].pc = "fetch" THEN [task[u] EXCEPT !.pc = "done"]
                                ELSE task[u]]
    /\ UNCHANGED <<queue, processing, lastRequestTime, drain, fut, dispatched,
                   cache, call, got, lastSet, genresCache, params, built,
                   search, perform, document>>

\* the clock moves on: no timer of the client is bound to a request
Advance(step, horizon) ==
    /\ now + step <= horizon
    /\ now' = now + step
    /\ sinceFetch' = IF sinceFetch + step < MIN_INTERVAL_MS
                     THEN sinceFetch + step ELSE MIN_INTERVAL_MS
    /\ UNCHANGED <<queue, processing, lastRequestTime, drain, task, fut, dispatched,
                   cache, call, got, lastSet, genresCache, params, built,
                   search, perform, document>>

Transport ==
    \/ \E u \in Units : FetchRejects(u)
    \/ \E u \in Units : \E r \in Responses : FetchResponds(u, r)
    \/ \E u \in Units : JsonSettles(u)
    \/ \E u \in Units : TextSettles(u)
    \/ \E u \in Units : BackoffFires(u)


Next ==
    \/ Advance(TickMs, MaxTime)
    \/ Enqueue(MaxUnits)
    \/ \E d \in Units : SpacingFires(d)
    \/ Transport

Spec == Init /\ [][Next]_vars

\* one call: its drain loop never has to space a dispatch
NextRetry ==
    \/ Advance(RetryTickMs, RetryMaxTime)
    \/ Enqueue(1)
    \/ Transport

SpecRetry == Init /\ [][NextRetry]_vars

\* ---- what a step does
\* the step dispatches a unit
Dispatches == Len(dispatched') > Len(dispatched)
\* the step calls fetch()
IssuesFetch == \E u \in Units : task'[u].fetches > task[u].fetches
\* the step is the enqueue call of unit u
EnqueueOf(u) == fut[u].state = "none" /\ fut'[u].state = "pending"
\* the step ends the call chain of unit u
Completes(u) == task[u].pc # "done" /\ task'[u].pc = "done"
ActiveDrains == {d \in Units : drain[d].pc # "none"}
Settled(u) == fut[u].state \in {"resolved", "rejected"}

\* ---- ResponseCache
\* ttl ?? this._defaultTTL
ResolveTtl(ttl) == IF ttl.given THEN ttl.ms ELSE DEFAULT_TTL_MS

\* Date.now() > entry.expires
Expired(t, expires) == t > expires

CacheGet_Once(store, k, t) ==
    IF ~store[k].present \/ Expired(t, store[k].expires)
    THEN [value |-> Null, store |-> [store EXCEPT ![k] = NoEntry]]
    ELSE [value |-> store[k].data, store |-> [store EXCEPT ![k] = NoEntry]]

CacheGet_NoEvict(store, k, t) ==
    IF ~store[k].present \/ Expired(t, store[k].expires)
    THEN [value |-> Null, store |-> store]
    ELSE [value |-> store[k].data, store |-> store]

CacheGet_Sweep(store, k, t) ==
    [value |-> IF store[k].present /\ ~Expired(t, store[k].expires) THEN store[k].data ELSE Null,
     store |-> [j \in DOMAIN store |->
                  IF store[j].present /\ Expired(t, store[j].expires) THEN NoEntry
                  ELSE store[j]]]

\* cache.get(url) at time t: the value returned and the store left
CacheGet(store, k, t) ==
    IF ~store[k].present
    THEN [value |-> Null, store |-> store]
    ELSE IF Expired(t, store[k].expires)
         THEN [value |-> Null, store |-> [store EXCEPT ![k] = NoEntry]]
         ELSE [value |-> store[k].data, store |-> store]

CacheSet_KeepLonger(store, k, v, ttl, t) ==
    IF store[k].present /\ store[k].expires > t + ResolveTtl(ttl)
    THEN store
    ELSE [store EXCEPT ![k] = [present |-> TRUE, data |-> v, expires |-> t + ResolveTtl(ttl)]]

CacheSet_IfAbsent(store, k, v, ttl, t) ==
    IF store[k].present
    THEN store
    ELSE [store EXCEPT ![k] = [present |-> TRUE, data |-> v, expires |-> t + ResolveTtl(ttl)]]

\* cache.set(url, data, ttl) at time t: the store left
CacheSet(store, k, v, ttl, t) ==
    [store EXCEPT ![k] = [present |-> TRUE, data |-> v, expires |-> t + ResolveTtl(ttl)]]

\* cache.clear()
CacheClear(store) == [k \in DOMAIN store |-> NoEntry]

\* the ttl arguments the cache is called with directly
CacheTtls == {Undefined, Millis(CacheTickMs)}
CacheMaxTime == StartTime + CacheTicks * CacheTickMs
RECURSIVE SumOfSets(_)
SumOfSets(ks) ==
    IF ks = {} THEN 0
    ELSE LET k == CHOOSE x \in ks : TRUE IN lastSet[k].n + SumOfSets(ks \ {k})
\* the number of cache.set calls made
SetsMade == SumOfSets(Urls)

\* cache.get(k)
GetCalled(k) ==
    /\ LET g == CacheGet(cache, k, now)
       IN  /\ cache' = g.store
           /\ got' = [key |-> k, value |-> g.value, at |-> now]
    /\ UNCHANGED <<now, queue, processing, lastRequestTime, drain, task, fut, dispatched,
                   sinceFetch, call, lastSet, genresCache, params, built,
                   search, perform, document>>

\* cache.set(k, v, ttl), v a document not stored before
SetCalled(k, ttl) ==
    /\ SetsMade < MaxSets
    /\ LET v == JsonData(k, SetsMade + 1)
       IN  /\ cache' = CacheSet(cache, k, v, ttl, now)
           /\ lastSet' = [lastSet EXCEPT ![k] =
                             [live |-> TRUE, value |-> v, at |-> now, ttl |-> ttl,
                              n |-> @.n + 1]]
    /\ UNCHANGED <<now, queue, processing, lastRequestTime, drain, task, fut, dispatched,
                   sinceFetch, call, got, genresCache, params, built,
                   search, perform, document>>

\* cache.clear()
ClearCalled ==
    /\ cache' = CacheClear(cache)
    /\ lastSet' = [k \in Urls |-> [NeverSet EXCEPT !.n = lastSet[k].n]]
    /\ UNCHANGED <<now, queue, processing, lastRequestTime, drain, task, fut, dispatched,
                   sinceFetch, call, got, genresCache, params, built,
                   search, perform, document>>

NextCache ==
    \/ Advance(CacheTickMs, CacheMaxTime)
    \/ \E k \in Urls : GetCalled(k)
    \/ \E k \in Urls : \E ttl \in CacheTtls : SetCalled(k, ttl)
    \/ ClearCalled

SpecCache == InitGet /\ [][NextCache]_vars

\* ---- buildUrl
HasSfw_Never(p) == FALSE

\* 'sfw' in params
HasSfw(p) == p["sfw"].has

Included_Truthy(v) == v.t = "string" /\ v.s # ""

\* value !== undefined && value !== null && value !== ''
Included(v) == v # JsUndefined /\ v # JsNull /\ v # JsString("")

\* buildUrl(endpoint, params): the params object as the call leaves it and the
\* query of the URL; searchParams.set converts the value to a string
BuildUrl(p) ==
    LET q == IF ~HasSfw(p) THEN [p EXCEPT !["sfw"] = Own(JsString("true"))] ELSE p
    IN  [params |-> q,
         query |-> [k \in Keys |-> IF q[k].has /\ Included(q[k].val)
                                   THEN Param(q[k].val.s) ELSE NoParam]]

BuildUrlCalled ==
    /\ params' = BuildUrl(params).params
    /\ built' = [done |-> TRUE, from |-> params, query |-> BuildUrl(params).query]
    /\ UNCHANGED <<now, queue, processing, lastRequestTime, drain, task, fut, dispatched,
                   sinceFetch, cache, call, got, lastSet, genresCache,
                   search, perform, document>>

\* buildUrl called with any params object over Keys
InitUrl ==
    /\ InitLimiter
    /\ call = [u \in Units |-> NewCall]
    /\ params \in [Keys -> {Absent} \cup {Own(v) : v \in ParamValues}]
    /\ built = NotBuilt
    /\ document = Elements

NextUrl == BuildUrlCalled

SpecUrl == InitUrl /\ [][NextUrl]_vars

\* ---- jikanGet
\* if (cached)
Truthy(v) == v.kind = "data" /\ v.url \notin FalsyUrls

ReadsCache_Always(opts) == TRUE

\* if (!opts.skipCache)
ReadsCache(opts) == ~opts.skipCache

NotCalled == {c \in Units : call[c].pc = "none"}
\* the opts of a call: {}, { skipCache: true }, { cacheTTL: 0 } and the
\* { cacheTTL: 30 * 60 * 1000 } of getAnimeById and getAnimeRecommendations
GetOpts ==
    {[skipCache |-> FALSE, cacheTTL |-> Undefined],
     [skipCache |-> TRUE, cacheTTL |-> Undefined],
     [skipCache |-> FALSE, cacheTTL |-> Millis(0)],
     [skipCache |-> FALSE, cacheTTL |-> Millis(ANIME_TTL_MS)]}
GetMaxTime == StartTime + GetTicks * GetTickMs
GetRetryMaxTime == StartTime + GetRetryTicks * GetTickMs

\* the body of jikanGet for the call record me, up to its return (the caller
\* is then at hitPc) or its await
JikanGetBody(c, me, hitPc) ==
    LET opts == [skipCache |-> me.skipCache, cacheTTL |-> me.cacheTTL]
        g == IF ReadsCache(opts) THEN CacheGet(cache, me.url, now)
             ELSE [value |-> Null, store |-> cache]
    IN  /\ cache' = g.store
        /\ IF ReadsCache(opts) /\ Truthy(g.value)
           THEN /\ call' = [call EXCEPT ![c] = [me EXCEPT !.pc = hitPc, !.out = g.value]]
                /\ UNCHANGED <<queue, processing, lastRequestTime, drain, task, fut,
                               dispatched, sinceFetch>>
           ELSE /\ call' = [call EXCEPT ![c] = [me EXCEPT !.pc = "waiting"]]
                /\ EnqueueUnit(c)

\* jikanGet(endpoint, params, opts) with url k up to its return or its await;
\* the call is the next one of at most limit
JikanGet(c, k, opts, limit) ==
    /\ c \in NotCalled
    /\ \A y \in NotCalled : c <= y
    /\ c <= limit
    /\ JikanGetBody(c, [NewCall EXCEPT !.url = k, !.skipCache = opts.skipCache,
                                       !.cacheTTL = opts.cacheTTL], "returned")
    /\ UNCHANGED <<now, got, lastSet, genresCache, params, built,
                   search, perform, document>>

JikanGetResumes_Invalidates(c) ==
    /\ call[c].pc = "waiting"
    /\ Settled(c)
    /\ IF fut[c].state = "resolved"
       THEN /\ cache' = CacheSet(cache, call[c].url, fut[c].value, call[c].cacheTTL, now)
            /\ call' = [call EXCEPT ![c].pc = IF call[c].genres THEN "fetched" ELSE "returned",
                                    ![c].out = fut[c].value]
       ELSE /\ call' = [call EXCEPT ![c].pc = "threw", ![c].out = fut[c].value]
            /\ cache' = [cache EXCEPT ![call[c].url] = NoEntry]
    /\ UNCHANGED <<now, queue, processing, lastRequestTime, drain, task, fut, dispatched,
                   sinceFetch, got, lastSet, genresCache, params, built,
                   search, perform, document>>

\* jikanGet from its await: cache.set and return, or the rejection thrown on
JikanGetResumes(c) ==
    /\ call[c].pc = "waiting"
    /\ Settled(c)
    /\ IF fut[c].state = "resolved"
       THEN /\ cache' = CacheSet(cache, call[c].url, fut[c].value, call[c].cacheTTL, now)
            /\ call' = [call EXCEPT ![c].pc = IF call[c].genres THEN "fetched" ELSE "returned",
                                    ![c].out = fut[c].value]
       ELSE /\ call' = [call EXCEPT ![c].pc = "threw", ![c].out = fut[c].value]
            /\ UNCHANGED cache
    /\ UNCHANGED <<now, queue, processing, lastRequestTime, drain, task, fut, dispatched,
                   sinceFetch, got, lastSet, genresCache, params, built,
                   search, perform, document>>

\* no promise continuation is waiting to run: they run before any other event
Quiet == \A c \in Units : ~(call[c].pc = "waiting" /\ Settled(c))

\* a server that answers at once: 200 with the document of the URL, or 404
Answers == {[status |-> 200, bodyOk |-> TRUE], [status |-> 404, bodyOk |-> TRUE]}

TransportDirect ==
    \/ \E u \in Units : \E r \in Answers : FetchResponds(u, r)
    \/ \E u \in Units : JsonSettles(u)
    \/ \E u \in Units : TextSettles(u)

\* several jikanGet calls against a server that answers at once
NextGet ==
    \/ \E c \in Units : JikanGetResumes(c)
    \/ Quiet /\ \E c \in Units : \E k \in Urls : \E opts \in GetOpts :
                    JikanGet(c, k, opts, GetCalls)
    \/ Quiet /\ Advance(GetTickMs, GetMaxTime)
    \/ Quiet /\ \E d \in Units : SpacingFires(d)
    \/ Quiet /\ TransportDirect

SpecGet == InitGet /\ [][NextGet]_vars

\* one jikanGet call against a server that may answer anything or not at all
NextGetRetry ==
    \/ \E c \in Units : JikanGetResumes(c)
    \/ Quiet /\ \E c \in Units : \E k \in Urls : \E opts \in GetOpts :
                    JikanGet(c, k, opts, 1)
    \/ Quiet /\ Advance(GetTickMs, GetRetryMaxTime)
    \/ Quiet /\ Transport

SpecGetRetry == InitGet /\ [][NextGetRetry]_vars

\* ---- fair scheduling
\* a spacing wait or a backoff wait has not run out
TimerPending ==
    \/ \E d \in Units : drain[d].pc = "spacing" /\ now < drain[d].wake
    \/ \E u \in Units : task[u].pc = "backoff" /\ now < task[u].timer

\* every wait of every call fits: a spacing wait and MAX_RETRIES backoff waits
LiveMaxTime == StartTime + (MAX_RETRIES + 1) * LiveCalls * LiveTickMs
LiveOpts == {o \in GetOpts : o.cacheTTL = Undefined}

LiveResumes == \E c \in Units : JikanGetResumes(c)
LiveCall == Quiet /\ \E c \in Units : \E k \in Urls : \E opts \in LiveOpts :
                        JikanGet(c, k, opts, LiveCalls)
LiveTick == Quiet /\ TimerPending /\ Advance(LiveTickMs, LiveMaxTime)
LiveSpacing == Quiet /\ \E d \in Units : SpacingFires(d)
\* a server that answers 200 or 503, with a readable body
LiveResponses == {r \in Responses : r.status \in {200, 503} /\ r.bodyOk}
\* the attempt of unit u returns or fails
LiveAnswer(u) ==
    Quiet /\ (FetchRejects(u) \/ \E r \in LiveResponses : FetchResponds(u, r))
LiveBody(u) == Quiet /\ (JsonSettles(u) \/ TextSettles(u))
LiveBackoff(u) == Quiet /\ BackoffFires(u)

NextLive ==
    \/ LiveResumes
    \/ LiveCall
    \/ LiveTick
    \/ LiveSpacing
    \/ \E u \in Units : LiveAnswer(u)
    \/ \E u \in Units : LiveBody(u)
    \/ \E u \in Units : LiveBackoff(u)

\* continuations run, time passes while a timer waits, due timers fire, and
\* every attempt is answered; callers need not call
Fairness ==
    /\ WF_vars(LiveResumes)
    /\ WF_vars(LiveTick)
    /\ WF_vars(LiveSpacing)
    /\ \A u \in Units : WF_vars(LiveAnswer(u))
    /\ \A u \in Units : WF_vars(LiveBody(u))
    /\ \A u \in Units : WF_vars(LiveBackoff(u))

SpecLive == InitGet /\ [][NextLive]_vars /\ Fairness

\* ---- getGenres, clearCache
\* if (_genresCache): the test fails
IsEmpty(v) == ~Truthy(v)

GenresMaxTime == StartTime + GenresTicks * GenresTickMs

\* getGenres() up to its return or its await
GetGenres(c) ==
    /\ c \in NotCalled
    /\ \A y \in NotCalled : c <= y
    /\ c <= GenresCalls
    /\ IF ~IsEmpty(genresCache)
       THEN /\ call' = [call EXCEPT ![c] = [@ EXCEPT !.pc = "returned", !.genres = TRUE,
                                                     !.out = genresCache]]
            /\ UNCHANGED <<queue, processing, lastRequestTime, drain, task, fut,
                           dispatched, sinceFetch, cache>>
       ELSE JikanGetBody(c, [call[c] EXCEPT !.cacheTTL = Millis(GENRES_TTL_MS),
                                            !.genres = TRUE], "hit")
    /\ UNCHANGED <<now, got, lastSet, genresCache, params, built,
                   search, perform, document>>

GetGenresResumes_NoAssign(c) ==
    /\ call[c].pc \in {"hit", "fetched"}
    /\ call' = [call EXCEPT ![c].pc = "returned"]
    /\ UNCHANGED <<now, queue, processing, lastRequestTime, drain, task, fut, dispatched,
                   sinceFetch, cache, got, lastSet, genresCache, params, built,
                   search, perform, document>>

\* getGenres from its await: _genresCache = data and return
GetGenresResumes(c) ==
    /\ call[c].pc \in {"hit", "fetched"}
    /\ genresCache' = call[c].out
    /\ call' = [call EXCEPT ![c].pc = "returned"]
    /\ UNCHANGED <<now, queue, processing, lastRequestTime, drain, task, fut, dispatched,
                   sinceFetch, cache, got, lastSet, params, built,
                   search, perform, document>>

ClearCache_KeepsSingleton ==
    /\ cache' = CacheClear(cache)
    /\ UNCHANGED <<now, queue, processing, lastRequestTime, drain, task, fut, dispatched,
                   sinceFetch, call, got, lastSet, genresCache, params, built,
                   search, perform, document>>

ClearCache_DropsQueue ==
    /\ cache' = CacheClear(cache)
    /\ genresCache' = Null
    /\ queue' = <<>>
    /\ UNCHANGED <<now, processing, lastRequestTime, drain, task, fut, dispatched,
                   sinceFetch, call, got, lastSet, params, built,
                   search, perform, document>>

\* clearCache()
ClearCache ==
    /\ cache' = CacheClear(cache)
    /\ genresCache' = Null
    /\ UNCHANGED <<now, queue, processing, lastRequestTime, drain, task, fut, dispatched,
                   sinceFetch, call, got, lastSet, params, built,
                   search, perform, document>>

\* no continuation that follows a settled future at once is waiting to run
Calm == Quiet /\ \A c \in Units : call[c].pc # "fetched"
\* no continuation at all is waiting: timers and the network come after them,
\* while the caller of a getGenres that hit the cache may run on before its
\* continuation does
Still == Calm /\ \A c \in Units : call[c].pc # "hit"

\* the genre list the server holds is a truthy or a falsy document
InitGenres ==
    /\ InitLimiter
    /\ \E k \in Urls : call = [u \in Units |-> [NewCall EXCEPT !.url = k]]
    /\ params = NoParams
    /\ built = NotBuilt
    /\ document = Elements

\* the opts of the jikanGet calls made next to getGenres: {}, { skipCache: true }
GenresOpts == {o \in GetOpts : o.cacheTTL = Undefined}

NextGenres ==
    \/ \E c \in Units : JikanGetResumes(c)
    \/ \E c \in Units : GetGenresResumes(c)
    \/ Calm /\ \E c \in Units : GetGenres(c)
    \/ Calm /\ \E c \in Units : \E opts \in GenresOpts :
                   JikanGet(c, call[c].url, opts, GenresCalls)
    \/ Calm /\ ClearCache
    \/ Still /\ Advance(GenresTickMs, GenresMaxTime)
    \/ Still /\ \E d \in Units : SpacingFires(d)
    \/ Still /\ TransportDirect

SpecGenres == InitGenres /\ [][NextGenres]_vars

\* ---- performSearch of the search page
SearchMaxTime == StartTime + SearchTicks * SearchTickMs
NotPerformed == {p \in Units : perform[p].pc = "none"}

\* if (state.search.loading) return
LoadingGuard(s) == s.loading

\* const resultsContainer = $('#searchResults'); if (!resultsContainer) return
HasContainer(doc) == "searchResults" \in doc

\* api.searchAnime(params): jikanGet('/anime', ...) with no opts, as the next
\* jikanGet call, up to its return or its await
SearchAnime(c, k) ==
    /\ c \in NotCalled
    /\ \A y \in NotCalled : c <= y
    /\ JikanGetBody(c, [NewCall EXCEPT !.url = k], "returned")

\* performSearch(append) with the filters of state.search making URL k, up to
\* its return or its await: the guard, the flag, the container lookup and the
\* request
PerformSearch(p, append, k) ==
    /\ p \in NotPerformed
    /\ \A y \in NotPerformed : p <= y
    /\ p <= SearchCalls
    /\ UNCHANGED <<now, got, lastSet, genresCache, params, built, document>>
    /\ IF LoadingGuard(search)
       THEN /\ perform' = [perform EXCEPT ![p] = [NewPerform EXCEPT !.pc = "skipped",
                                                                   !.append = append]]
            /\ UNCHANGED <<search, queue, processing, lastRequestTime, drain, task, fut,
                           dispatched, sinceFetch, cache, call>>
       ELSE /\ search' = [search EXCEPT !.loading = TRUE]
            /\ IF ~HasContainer(document)
               THEN /\ perform' = [perform EXCEPT ![p] = [pc |-> "returned", append |-> append,
                                                          call |-> 0, setFlag |-> TRUE]]
                    /\ UNCHANGED <<queue, processing, lastRequestTime, drain, task, fut,
                                   dispatched, sinceFetch, cache, call>>
               ELSE \E c \in Units :
                        /\ SearchAnime(c, k)
                        /\ perform' = [perform EXCEPT ![p] = [pc |-> "awaiting",
                                                              append |-> append,
                                                              call |-> c, setFlag |-> TRUE]]

\* the jikanGet call that performSearch call p awaits has returned or thrown
SearchSettled(p) == perform[p].pc = "awaiting" /\ call[perform[p].call].pc \in {"returned", "threw"}

\* the results a document adds: data.data || []
NewResults(data) == IF Truthy(data) THEN <<data>> ELSE <<>>

\* performSearch from its await: the results stored and rendered, or the error
\* card of the catch block, and the finally block. Reading data.pagination
\* throws if the document is null, and does not if it is false, 0 or ""
PerformSearchResumes(p) ==
    /\ SearchSettled(p)
    /\ LET c == perform[p].call
           data == call[c].out
       IN  \/ /\ call[c].pc = "returned"
              /\ perform' = [perform EXCEPT ![p].pc = "done"]
              /\ search' = [results |-> IF perform[p].append
                                        THEN search.results \o NewResults(data)
                                        ELSE NewResults(data),
                            loading |-> FALSE]
           \/ /\ call[c].pc = "threw" \/ ~Truthy(data)
              /\ perform' = [perform EXCEPT ![p].pc = "failed"]
              /\ search' = [search EXCEPT !.loading = FALSE]
    /\ UNCHANGED <<now, queue, processing, lastRequestTime, drain, task, fut, dispatched,
                   sinceFetch, cache, call, got, lastSet, genresCache, params, built,
                   document>>

\* no continuation of jikanGet or of performSearch is waiting to run
Smooth == Quiet /\ \A p \in Units : ~SearchSettled(p)

\* the document holds #searchResults or does not
InitSearch ==
    /\ InitLimiter
    /\ call = [u \in Units |-> NewCall]
    /\ params = NoParams
    /\ built = NotBuilt
    /\ document \in SUBSET Elements

\* performSearch calls made by the handlers of the page, against a server that
\* answers at once
NextSearch ==
    \/ \E c \in Units : JikanGetResumes(c)
    \/ \E p \in Units : PerformSearchResumes(p)
    \/ Smooth /\ \E p \in Units : \E append \in BOOLEAN : \E k \in Urls :
                     PerformSearch(p, append, k)
    \/ Smooth /\ Advance(SearchTickMs, SearchMaxTime)
    \/ Smooth /\ \E d \in Units : SpacingFires(d)
    \/ Smooth /\ TransportDirect

SpecSearch == InitSearch /\ [][NextSearch]_vars

\* C1: _lastRequestTime is assigned only by a dispatch, and every dispatch
\* assigns a time at least MIN_INTERVAL_MS (350 ms) after the one before, so the
\* dispatch times never decrease.
C1_DispatchSpacing ==
    [][/\ Dispatches => lastRequestTime' >= lastRequestTime + 350
       /\ lastRequestTime' # lastRequestTime => Dispatches]_vars

\* two dispatches, the second exactly 350 ms after the first
C1_Witness ==
    /\ Len(dispatched) = 2
    /\ lastRequestTime = StartTime + 350
    /\ now = lastRequestTime

\* C2: any two fetch() calls of the client, retries included, are at least
\* 350 ms apart.
C2_FetchSpacing ==
    [][IssuesFetch => sinceFetch >= 350]_vars

\* the drain loops and the flag
C3_DrainState ==
    /\ Cardinality(ActiveDrains) <= 1
    /\ processing <=> ActiveDrains # {}

\* an enqueue call made while a drain loop is active
C3_SecondCall ==
    \A u \in Units :
        EnqueueOf(u) /\ processing =>
            /\ queue' = Append(queue, u)
            /\ ~Dispatches
            /\ UNCHANGED <<drain, task, processing, lastRequestTime>>

\* C3: at most one drain loop is active, the flag says whether one is, and an
\* enqueue call made while one is active only appends its unit: it pops and
\* dispatches nothing and starts no second loop.
C3_OneDrain == []C3_DrainState /\ [][C3_SecondCall]_vars

\* two calls made while the drain loop of the first call awaits its unit
C3_Witness ==
    /\ drain[1].pc = "exec"
    /\ drain[1].cur = 1
    /\ queue = <<2, 3>>

\* C4: units are dispatched in the order of their enqueue calls: the i-th
\* dispatch is that of the i-th call.
C4_Fifo ==
    \A i \in 1..Len(dispatched) : dispatched[i] = i

\* three units dispatched by the loop of the first call, the later two enqueued
\* while it was suspended
C4_Witness ==
    /\ dispatched = <<1, 2, 3>>
    /\ drain[1].pc = "exec"
    /\ drain[1].cur = 3

\* the step in which a unit fails
C5_OnFailure ==
    \A u \in Units :
        Completes(u) /\ fut'[u].state # "resolved" =>
            /\ fut'[u].state = "rejected"
            /\ IsJikanError(fut'[u].value)
            /\ fut'[u].value.url = UrlOf(u)
            /\ IF queue = <<>>
               THEN ~processing' /\ \A d \in Units : drain'[d].pc = "none"
               ELSE /\ processing'
                    /\ queue' = Tail(queue)
                    /\ \E d \in Units : /\ drain'[d].pc \in {"spacing", "exec"}
                                        /\ drain'[d].cur = Head(queue)

\* a set flag has a loop behind it, an ended unit a settled promise
C5_FlagHasLoop ==
    /\ processing => ActiveDrains # {}
    /\ \A u \in Units : task[u].pc = "done" => Settled(u)

\* C5: when a unit fails, the same step rejects its promise with its error and
\* the drain loop goes on: it takes the next queued unit, or ends and clears
\* the flag when there is none.  The flag is never set without a loop behind it.
C5_FailureDoesNotStop == []C5_FlagHasLoop /\ [][C5_OnFailure]_vars

\* the first unit failed, the one behind it ran and succeeded, the limiter is idle
C5_Witness ==
    /\ fut[1].state = "rejected"
    /\ fut[2].state = "resolved"
    /\ ~processing

\* C6: a unit is executed at most once and its promise settled by at most one
\* resolve/reject call; a settled promise holds the outcome of its own unit,
\* which has run once and ended; and when the limiter is idle every enqueued
\* unit has been executed and settled.
C6_ExactlyOnce ==
    \A u \in Units :
        /\ task[u].runs <= 1
        /\ fut[u].calls <= 1
        /\ Cardinality({i \in 1..Len(dispatched) : dispatched[i] = u}) = task[u].runs
        /\ Settled(u) =>
              /\ task[u].runs = 1 /\ fut[u].calls = 1 /\ task[u].pc = "done"
              /\ fut[u].value.url = UrlOf(u)
              /\ fut[u].state = "resolved" <=> fut[u].value.kind = "data"
              /\ fut[u].state = "rejected" <=> IsJikanError(fut[u].value)
        /\ task[u].pc = "done" => Settled(u)
        /\ ~processing /\ u \in Enqueued => Settled(u)

\* all three units executed and settled, with different outcomes
C6_Witness ==
    /\ \A u \in Units : Settled(u) /\ task[u].runs = 1
    /\ fut[1].state = "rejected"
    /\ fut[2].state = "resolved"
    /\ fut[3].value.kind = "ApiError"


\* ---- one call (SpecRetry)
Running(u) == task[u].pc \in {"fetch", "json", "text", "backoff"}
ClientStatus(st) == st >= 400 /\ st <= 499 /\ st # 429

\* the counters of a call
C7_AttemptCount ==
    \A u \in Units :
        /\ task[u].fetches <= 4
        /\ task[u].attempt = task[u].fetches
        /\ task[u].waits <= 3

\* what a step does to the attempt number
C7_AttemptStep ==
    \A u \in Units :
        \/ task'[u].attempt = task[u].attempt
        \/ task'[u].attempt = task[u].attempt + 1

\* C7: one fetchWithRetry call makes at most 4 fetch() calls, numbered 1..4
\* whatever the attempts end in: the attempt number is that of the fetch() call
\* under way, and a step leaves it as it is or adds one.
C7_AtMostFourAttempts == []C7_AttemptCount /\ [][C7_AttemptStep]_vars

\* a fourth attempt after a mix of retried conditions
C7_Witness ==
    /\ task[1].pc = "fetch"
    /\ task[1].fetches = 4
    /\ task[1].n429 = 1

\* where a call answered 429 stands
C8_On429State ==
    \A u \in Units :
        /\ task[u].resp.status = 429 => task[u].pc \in {"backoff", "done"}
        /\ task[u].resp.status = 429 /\ task[u].pc = "backoff" => task[u].attempt <= 3
        /\ task[u].resp.status = 429 /\ task[u].pc = "done" =>
              /\ task[u].attempt > 3
              /\ fut[u].state = "rejected"
              /\ fut[u].value = [kind |-> "RateLimitError", status |-> 429,
                                 url |-> UrlOf(u), attempt |-> task[u].attempt,
                                 msg |-> "Rate limited (429)", info |-> 0]
        /\ fut[u].value.kind = "RateLimitError" =>
              task[u].pc = "done" /\ task[u].resp.status = 429
        /\ task[u].pc = "done" /\ task[u].n429 = task[u].fetches =>
              /\ fut[u].value.kind = "RateLimitError"
              /\ task[u].fetches = 4
              /\ task[u].waits = 3

\* the wait begun on a 429, and its end
C8_On429Step ==
    \A u \in Units :
        /\ task[u].pc = "fetch" /\ task'[u].pc = "backoff" /\ task'[u].resp.status = 429 =>
              /\ task'[u].timer - now - 1000 * 2 ^ (task[u].attempt - 1) \in 0..499
              /\ task'[u].attempt = task[u].attempt
              /\ task'[u].waits = task[u].waits + 1
        /\ task[u].pc = "backoff" /\ task'[u].pc # "backoff" =>
              /\ now >= task[u].timer
              /\ task'[u].pc = "fetch"
              /\ task'[u].attempt = task[u].attempt + 1

\* C8: a 429 on an attempt above 3 ends the call with RateLimitError (status
\* 429, the url, the attempt), and only that does; a 429 on an attempt up to 3
\* starts a wait of 1000 * 2^(attempt-1) ms plus a jitter below 500 ms, after
\* which the next attempt is attempt + 1.  A call answered 429 every time ends
\* with RateLimitError after 4 attempts and 3 waits.
C8_RateLimited == []C8_On429State /\ [][C8_On429Step]_vars

\* a call answered 429 four times has ended with RateLimitError
C8_Witness ==
    /\ task[1].pc = "done"
    /\ task[1].n429 = 4
    /\ fut[1].value.kind = "RateLimitError"
    /\ fut[1].value.attempt = 4

\* the call got a 429 on attempts 1-3 and a 200 with a JSON body on attempt 4
C9_Scenario(u) ==
    /\ task[u].pc = "done"
    /\ task[u].attempt = 4
    /\ task[u].n429 = 3
    /\ task[u].resp = [status |-> 200, bodyOk |-> TRUE]

\* C9 as stated: a call answered 429 on attempts 1-3 and 200 on attempt 4 fails
\* with RateLimited.
C9_Original ==
    \A u \in Units :
        C9_Scenario(u) => fut[u].state = "rejected" /\ fut[u].value.kind = "RateLimitError"

\* C9 as amended: a call answered 429 on attempts 1-3 and 200 on attempt 4
\* succeeds: it resolves with the parsed body of attempt 4.
C9_FourthAttemptSucceeds ==
    \A u \in Units :
        C9_Scenario(u) =>
            /\ fut[u].state = "resolved"
            /\ fut[u].value.kind = "data"
            /\ fut[u].value.url = UrlOf(u)
            /\ fut[u].value.info = 4

C9_Witness == C9_Scenario(1) /\ fut[1].state = "resolved"

\* where a call answered 4xx stands
C10_On4xxState ==
    \A u \in Units :
        ClientStatus(task[u].resp.status) =>
            /\ task[u].pc \in {"text", "done"}
            /\ task[u].timer = 0
            /\ task[u].fetches = task[u].attempt
            /\ task[u].waits = task[u].attempt - 1
            /\ task[u].pc = "done" =>
                  /\ fut[u].state = "rejected"
                  /\ fut[u].value.kind = "ApiError"
                  /\ fut[u].value.msg = "Client error"
                  /\ fut[u].value.status = task[u].resp.status
                  /\ fut[u].value.url = UrlOf(u)

\* what a step does to a call answered 4xx
C10_On4xxStep ==
    \A u \in Units :
        ClientStatus(task[u].resp.status) =>
            /\ task'[u].resp = task[u].resp
            /\ task'[u].fetches = task[u].fetches
            /\ task'[u].waits = task[u].waits
            /\ task[u].pc = "text" /\ task'[u].pc # "text" => task'[u].pc = "done" /\ now' = now

\* C10: a 4xx other than 429 is never retried: the attempt that gets it only
\* reads the body and ends the call with an ApiError (Client error) carrying
\* that status and the url; no fetch() call and no backoff wait follow it.
C10_ClientErrorFinal == []C10_On4xxState /\ [][C10_On4xxStep]_vars

\* a 404 on the first attempt has failed the call with no time passed since
\* the dispatch
C10_Witness ==
    /\ task[1].pc = "done"
    /\ task[1].attempt = 1
    /\ task[1].resp.status = 404
    /\ fut[1].value.kind = "ApiError"
    /\ now = lastRequestTime

ServerStatus(st) == st >= 500

\* where a call answered 5xx stands
C11_On5xxState ==
    \A u \in Units :
        ServerStatus(task[u].resp.status) =>
            /\ task[u].pc \in {"backoff", "text", "done"}
            /\ task[u].pc = "backoff" => task[u].attempt <= 3
            /\ task[u].pc \in {"text", "done"} => task[u].attempt = 4
            /\ task[u].pc = "done" =>
                  /\ fut[u].state = "rejected"
                  /\ fut[u].value.kind = "ApiError"
                  /\ fut[u].value.msg = "Server error"
                  /\ fut[u].value.status = task[u].resp.status
                  /\ fut[u].value.url = UrlOf(u)

\* the wait begun on a 5xx, and the end of the body read on attempt 4
C11_On5xxStep ==
    \A u \in Units :
        /\ task[u].pc = "fetch" /\ task'[u].pc = "backoff" /\ ServerStatus(task'[u].resp.status) =>
              /\ task'[u].timer - now - 1000 * 2 ^ (task[u].attempt - 1) \in 0..499
              /\ task'[u].attempt = task[u].attempt
              /\ task'[u].waits = task[u].waits + 1
        /\ task[u].pc = "text" /\ ServerStatus(task[u].resp.status) /\ task'[u].pc # "text" =>
              task'[u].pc = "done"

\* C11: a status >= 500 is handled like a 429: on attempts 1..3 the call waits
\* 1000 * 2^(attempt-1) ms plus a jitter below 500 ms and tries again; on
\* attempt 4 it reads the body and fails with an ApiError (Server error)
\* carrying the status of that response and the url.
C11_ServerError == []C11_On5xxState /\ [][C11_On5xxStep]_vars

\* a 503 on the fourth attempt has failed the call
C11_Witness ==
    /\ task[1].pc = "done"
    /\ task[1].attempt = 4
    /\ task[1].resp.status = 503
    /\ fut[1].value.kind = "ApiError"
    /\ fut[1].value.status = 503

\* the latest fetch() of the call was rejected: the frame holds no response
FetchFailed(u) == task[u].pc \in {"backoff", "done"} /\ task[u].resp = NoResponse

\* where a call whose fetch() was rejected stands
C12_OnRejectState ==
    \A u \in Units :
        FetchFailed(u) =>
            /\ task[u].pc = "backoff" => task[u].attempt <= 3
            /\ task[u].pc = "done" =>
                  /\ task[u].attempt = 4
                  /\ task[u].fetches = 4
                  /\ fut[u].state = "rejected"
                  /\ fut[u].value.kind = "NetworkError"
                  /\ fut[u].value.url = UrlOf(u)
                  /\ fut[u].value.info = 4

\* the step in which fetch() is rejected
C12_OnRejectStep ==
    \A u \in Units :
        task[u].pc = "fetch" /\ task'[u].pc # "fetch" /\ task'[u].resp = NoResponse =>
            IF task[u].attempt <= 3
            THEN /\ task'[u].pc = "backoff"
                 /\ task'[u].timer - now - 1000 * 2 ^ (task[u].attempt - 1) \in 0..499
                 /\ task'[u].attempt = task[u].attempt
                 /\ fut'[u].state = "pending"
            ELSE /\ task'[u].pc = "done"
                 /\ fut'[u].state = "rejected"

\* C12: when fetch() is rejected on attempts 1..3 the call waits
\* 1000 * 2^(attempt-1) ms plus a jitter below 500 ms and tries again; when it
\* is rejected on attempt 4 the call fails with a NetworkError carrying the url
\* (and the count of 4 attempts).
C12_NetworkFailure == []C12_OnRejectState /\ [][C12_OnRejectStep]_vars

\* fetch() rejected on the fourth attempt has failed the call
C12_Witness ==
    /\ task[1].pc = "done"
    /\ task[1].resp = NoResponse
    /\ task[1].attempt = 4
    /\ fut[1].value.kind = "NetworkError"

\* the caller sees nothing while attempts go on, and a call that ended on a
\* 2xx with a JSON body resolved with the body of that attempt
C13_State ==
    \A u \in Units :
        /\ Running(u) => fut[u].state = "pending"
        /\ /\ task[u].pc = "done"
           /\ RespOk(task[u].resp.status)
           /\ task[u].resp.bodyOk
           => /\ fut[u].state = "resolved"
              /\ fut[u].value.kind = "data"
              /\ fut[u].value.url = UrlOf(u)
              /\ fut[u].value.info = task[u].attempt
              /\ task[u].fetches = task[u].attempt
              /\ task[u].waits = task[u].attempt - 1

\* a 2xx ends the call, and an ended call does nothing more
C13_Step ==
    \A u \in Units :
        /\ /\ task[u].pc = "json"
           /\ task[u].resp.bodyOk
           /\ task'[u] # task[u]
           => /\ task'[u].pc = "done"
              /\ task'[u].fetches = task[u].fetches
              /\ fut'[u].state = "resolved"
        /\ task[u].pc = "done" => task'[u] = task[u] /\ fut'[u] = fut[u]

\* C13: while the attempts of a call go on its promise stays pending; when
\* attempts 1..k (k <= 3) were retried and attempt k+1 is answered 2xx with a
\* JSON body, the call resolves with the body of attempt k+1 after k+1 fetch()
\* calls and k waits; and an ended call makes no further attempt.
C13_RetriesNotSurfaced == []C13_State /\ [][C13_Step]_vars

\* two retried attempts of different kinds, then a 200 on the third
C13_Witness ==
    /\ task[1].pc = "done"
    /\ task[1].attempt = 3
    /\ task[1].n429 = 1
    /\ task[1].waits = 2
    /\ task[1].resp = [status |-> 200, bodyOk |-> TRUE]
    /\ fut[1].state = "resolved"

\* the error a failed call was rejected with is the one its last frame raised
C14_State ==
    \A u \in Units :
        fut[u].state = "rejected" =>
            LET r == task[u].resp
                e == fut[u].value
            IN  /\ task[u].pc = "done"
                /\ task[u].attempt = task[u].fetches
                /\ r.status = 429 =>
                      e = [kind |-> "RateLimitError", status |-> 429, url |-> UrlOf(u),
                           attempt |-> task[u].attempt, msg |-> "Rate limited (429)",
                           info |-> 0]
                /\ ServerStatus(r.status) \/ ClientStatus(r.status) =>
                      e = [kind |-> "ApiError", status |-> r.status, url |-> UrlOf(u),
                           attempt |-> 0,
                           msg |-> IF ServerStatus(r.status) THEN "Server error"
                                   ELSE "Client error",
                           info |-> IF r.bodyOk THEN 1 ELSE 0]
                /\ r.status = 0 \/ RespOk(r.status) =>
                      e = [kind |-> "NetworkError", status |-> 0, url |-> UrlOf(u),
                           attempt |-> 0, msg |-> "Network error after",
                           info |-> task[u].attempt]

\* a thrown ApiError ends the call, and a settled promise keeps its outcome
C14_Step ==
    \A u \in Units :
        /\ task[u].pc = "text" /\ task'[u] # task[u] =>
              task'[u].pc = "done" /\ fut'[u].state = "rejected"
        /\ Settled(u) => fut'[u] = fut[u]

\* C14: the error a call is rejected with is the typed error raised by the
\* frame of its last attempt, with the kind and fields that frame gave it; a
\* thrown ApiError ends the call in the same step (it is neither retried nor
\* turned into a NetworkError), and the outcome of a settled call never changes.
C14_TypedErrorKept == []C14_State /\ [][C14_Step]_vars

\* a 404 on the third attempt, after two retried attempts
C14_Witness ==
    /\ task[1].pc = "done"
    /\ task[1].attempt = 3
    /\ task[1].resp.status = 404
    /\ fut[1].state = "rejected"
    /\ fut[1].value.kind = "ApiError"
    /\ fut[1].value.status = 404


\* ---- jikanGet and the transport (SpecGetRetry)
\* the call chain of unit u ended in a failure
TransportFailed(u) ==
    task[u].pc = "done" /\ ~(RespOk(task[u].resp.status) /\ task[u].resp.bodyOk)

\* a failed call chain has rejected the promise of enqueue, a call that threw
\* holds that rejection, and only documents are returned or cached
C15_State ==
    \A c \in Units :
        /\ TransportFailed(c) =>
              /\ fut[c].state = "rejected"
              /\ fut[c].value.kind \in {"RateLimitError", "ApiError", "NetworkError"}
              /\ call[c].pc \in {"waiting", "threw"}
        /\ call[c].pc = "threw" =>
              /\ TransportFailed(c)
              /\ call[c].out = fut[c].value
              /\ call[c].out.url = call[c].url
        /\ call[c].pc = "returned" => call[c].out.kind = "data"
        /\ \A k \in Urls : cache[k].present => cache[k].data.kind = "data"

\* the step after the rejection is the one in which jikanGet throws it on
C15_Step ==
    \A c \in Units :
        call[c].pc = "waiting" /\ fut[c].state = "rejected" =>
            /\ call'[c].pc = "threw"
            /\ call'[c].out = fut[c].value
            /\ cache' = cache

\* C15: when fetchWithRetry ends in a typed failure the limiter rejects the
\* promise of enqueue with that error and jikanGet, resumed before anything
\* else happens, throws the same error to its caller and leaves the cache as
\* it is; only documents are ever returned or cached.
C15_FailureSurfaced == []C15_State /\ [][C15_Step]_vars

\* a jikanGet call answered 429 four times has thrown the RateLimitError
C15_Witness ==
    /\ call[1].pc = "threw"
    /\ call[1].out.kind = "RateLimitError"
    /\ call[1].out.attempt = 4
    /\ ~cache[call[1].url].present

\* ---- the cache called directly (SpecCache)
\* the step is a cache.get(k) call
GetStep(k) == got' # got /\ got'.key = k
\* the step is a cache.set(k, ...) call
SetStep(k) == lastSet'[k] # lastSet[k] /\ lastSet'[k].live
\* the TTL of a set call in milliseconds
TtlMs(ttl) == IF ttl.given THEN ttl.ms ELSE 300000
\* the time since the latest set on k
Elapsed(k) == now - lastSet[k].at

\* C16: a get(K) made after set(K, V, T), with no set or clear on K in
\* between and less than T ms after the set, returns V and leaves the entry
\* as it is (T is the default 300000 ms when the set passed no ttl).
C16_GetBeforeExpiry ==
    [][\A k \in Urls :
          GetStep(k) /\ lastSet[k].live /\ Elapsed(k) < TtlMs(lastSet[k].ttl) =>
              /\ got'.value = lastSet[k].value
              /\ cache'[k] = cache[k]]_vars

\* a get one tick after a set with the default TTL has returned the value set
C16_Witness ==
    /\ got.key = 1
    /\ lastSet[1].live
    /\ ~lastSet[1].ttl.given
    /\ got.at = lastSet[1].at + CacheTickMs
    /\ got.value = lastSet[1].value
    /\ got.value.kind = "data"

\* the get(k) made T ms or more after the set finds nothing and evicts
C17_AbsentFrom(k, bound) ==
    GetStep(k) /\ lastSet[k].live /\ bound =>
        /\ got'.value = Null
        /\ ~cache'[k].present

\* C17 as stated: a get(K) made T ms or more after set(K, V, T), exactly T
\* included, returns absent and leaves no entry.
C17_Original ==
    [][\A k \in Urls : C17_AbsentFrom(k, Elapsed(k) >= TtlMs(lastSet[k].ttl))]_vars

\* C17 as amended: a get(K) made more than T ms after set(K, V, T), with no
\* set on K in between, returns absent and leaves no entry under K, and so
\* does every later get(K); at exactly T ms the entry is still returned.
C17_AbsentAfterExpiry ==
    [][\A k \in Urls :
          /\ C17_AbsentFrom(k, Elapsed(k) > TtlMs(lastSet[k].ttl))
          /\ GetStep(k) /\ lastSet[k].live /\ Elapsed(k) = TtlMs(lastSet[k].ttl) =>
                got'.value = lastSet[k].value]_vars

\* a get two ticks after a set with a TTL of one tick has found nothing
C17_Witness ==
    /\ got.key = 1
    /\ got.value = Null
    /\ lastSet[1].live
    /\ lastSet[1].ttl = Millis(CacheTickMs)
    /\ got.at = lastSet[1].at + 2 * CacheTickMs
    /\ ~cache[1].present

\* C18: a set(K, V2, T2) leaves under K the entry with value V2 and
\* expiration now + T2 (T2 the default 300000 ms when no ttl is passed),
\* whatever K held before, and leaves the entries of all other keys as they are.
C18_SetReplaces ==
    [][\A k \in Urls :
          SetStep(k) =>
              /\ cache'[k] = [present |-> TRUE, data |-> lastSet'[k].value,
                              expires |-> now + TtlMs(lastSet'[k].ttl)]
              /\ \A j \in Urls \ {k} : cache'[j] = cache[j]]_vars

\* key 1 set with the default TTL and then again with a shorter one, while key
\* 2 holds an entry: the entry of key 1 is the second one
C18_Witness ==
    /\ lastSet[1].n = 2
    /\ lastSet[2].n = 1
    /\ cache[2].present
    /\ cache[1].present
    /\ cache[1].data = lastSet[1].value
    /\ cache[1].data.info = 3
    /\ cache[1].expires = lastSet[1].at + CacheTickMs
    /\ lastSet[2].at < lastSet[1].at

\* ---- jikanGet and the cache (SpecGet)
\* the step is the jikanGet call of ordinal c
CallStep(c) == call[c].pc = "none" /\ call'[c].pc # "none"
\* the step starts no work: nothing is enqueued, dispatched or fetched
NoWork == UNCHANGED <<queue, processing, lastRequestTime, drain, task, fut, dispatched>>

\* the cache hit of a call made without skipCache on a URL whose entry passes test
C19_Hit(c, k, test) ==
    /\ CallStep(c)
    /\ call'[c].url = k
    /\ ~call'[c].skipCache
    /\ cache[k].present
    /\ now < cache[k].expires
    /\ test
    => /\ call'[c].pc = "returned"
       /\ call'[c].out = cache[k].data
       /\ NoWork
       /\ cache' = cache

\* C19: a jikanGet call made without skipCache while the cache holds a
\* non-expired entry for its URL returns the value of that entry, enqueues
\* nothing, issues no request and leaves the cache as it is.
C19_CacheHit ==
    [][\A c \in Units : \A k \in Urls : C19_Hit(c, k, TRUE)]_vars

\* the same for entries whose value is no falsy document
C19_HitWhenTruthy ==
    [][\A c \in Units : \A k \in Urls : C19_Hit(c, k, k \notin FalsyUrls)]_vars

\* the step in which a call resumes with the fetched value and returns
C20_Write ==
    \A c \in Units :
        call[c].pc = "waiting" /\ call'[c].pc = "returned" =>
            /\ call'[c].out = fut[c].value
            /\ cache'[call[c].url] =
                  [present |-> TRUE, data |-> fut[c].value,
                   expires |-> now + TtlMs(call[c].cacheTTL)]
            /\ \A j \in Urls \ {call[c].url} : cache'[j] = cache[j]

\* a call without skipCache on a URL that a call has just fetched and cached
C20_NextIsHit ==
    \A c \in Units : \A k \in Urls :
        /\ CallStep(c)
        /\ call'[c].url = k
        /\ ~call'[c].skipCache
        /\ \E b \in Units :
              /\ call[b].pc = "returned"
              /\ fut[b].state = "resolved"
              /\ call[b].url = k
              /\ cache[k] = [present |-> TRUE, data |-> call[b].out,
                             expires |-> now + TtlMs(call[b].cacheTTL)]
        => /\ call'[c].pc = "returned"
           /\ call'[c].out = cache[k].data
           /\ NoWork

\* C20: a jikanGet call that missed the cache and fetched its value stores
\* it under its URL with expiration now + cacheTTL (the default 300000 ms when
\* the call passed none), and a call for the same URL made right after it is
\* a cache hit.
C20_MissThenHit == [][C20_Write /\ C20_NextIsHit]_vars

\* the write alone
C20_WriteOnly == [][C20_Write]_vars

\* a call made with skipCache that has returned has returned what it fetched
C21_State ==
    \A c \in Units :
        call[c].skipCache /\ call[c].pc = "returned" =>
            /\ fut[c].state = "resolved"
            /\ call[c].out = fut[c].value

\* the call with skipCache enqueues its unit and leaves the cache alone; its
\* return writes the fetched value
C21_Step ==
    \A c \in Units :
        /\ CallStep(c) /\ call'[c].skipCache =>
              /\ call'[c].pc = "waiting"
              /\ EnqueueOf(c)
              /\ cache' = cache
        /\ call[c].pc = "waiting" /\ call[c].skipCache /\ call'[c].pc = "returned" =>
              cache'[call[c].url] =
                  [present |-> TRUE, data |-> fut[c].value,
                   expires |-> now + TtlMs(call[c].cacheTTL)]

\* C21: a jikanGet call made with skipCache never reads the cache: whatever
\* the cache holds it enqueues a unit on the limiter, and when the fetch
\* succeeds it returns the fetched value and writes it over the entry of its
\* URL.
C21_SkipCache == []C21_State /\ [][C21_Step]_vars

\* a call with skipCache made one tick after a call that cached the same URL
\* for 5 minutes: it fetched again and rewrote the live entry
C21_Witness ==
    /\ call[1].pc = "returned" /\ call[1].url = 1 /\ ~call[1].skipCache
    /\ call[1].cacheTTL = Undefined
    /\ call[2].pc = "returned" /\ call[2].url = 1 /\ call[2].skipCache
    /\ dispatched = <<1, 2>>
    /\ lastRequestTime = StartTime + GetTickMs
    /\ cache[1].expires = StartTime + GetTickMs + 300000

\* the step is a getGenres call, a completion of getGenres, a clearCache
GenresCallStep(c) == CallStep(c) /\ call'[c].genres
GenresCompletes(c) ==
    call[c].genres /\ call[c].pc \in {"hit", "fetched"} /\ call'[c].pc = "returned"
\* (the only step that writes the cache or the singleton and is no step of a call)
ClearStep == call' = call /\ now' = now /\ (cache' # cache \/ genresCache' # genresCache)

\* the singleton holds a document exactly from a successful completion of
\* getGenres to the next clearCache: only these two assign it
C22_Assigned ==
    genresCache' # genresCache =>
        \/ ClearStep /\ genresCache' = Null
        \/ \E c \in Units : GenresCompletes(c) /\ genresCache' = call[c].out
                               /\ genresCache' # Null

\* a getGenres call made while the singleton passes test returns it at once:
\* no cache read, nothing enqueued
C22_Returns(test) ==
    \A c \in Units :
        GenresCallStep(c) /\ genresCache # Null /\ test =>
            /\ call'[c].pc = "returned"
            /\ call'[c].out = genresCache
            /\ cache' = cache
            /\ genresCache' = genresCache
            /\ NoWork

\* C22: once a getGenres has completed successfully, every later getGenres
\* call returns the singleton at once, with no cache read and no request,
\* however much time has passed, until clearCache is called; only clearCache
\* empties the singleton.
C22_SingletonKept == [][C22_Assigned /\ C22_Returns(TRUE)]_vars

\* the same when the genre document is not falsy
C22_TruthySingletonKept == [][C22_Assigned /\ C22_Returns(Truthy(genresCache))]_vars

\* a getGenres call that returned the singleton two ticks, more than 24 hours,
\* after the one that fetched it
C22_TruthyWitness ==
    /\ call[1].genres /\ call[2].genres
    /\ call[1].pc = "returned" /\ call[2].pc = "returned"
    /\ Len(dispatched) = 1
    /\ now = StartTime + 2 * GenresTickMs
    /\ lastRequestTime = StartTime
    /\ call[2].out = genresCache

\* the cache holds no entry
CacheEmpty(store) == \A k \in Urls : store[k] = NoEntry
\* unit u is queued or executing
InFlight(u) == fut[u].state = "pending"

\* clearCache leaves the singleton and the cache empty
C23_Clears == ClearStep => genresCache' = Null /\ CacheEmpty(cache')

\* a getGenres call made in the state clearCache leaves, whatever is in flight,
\* returns nothing at once and enqueues a request of its own
C23_Fetches ==
    \A c \in Units :
        GenresCallStep(c) /\ genresCache = Null /\ CacheEmpty(cache) =>
            /\ call'[c].pc = "waiting"
            /\ EnqueueOf(c)
            /\ queue # <<>> \/ processing => queue' = Append(queue, c)

\* C23: getGenres called after clearCache fetches from the network instead of
\* returning a value cached before, in whatever state clearCache was called,
\* also one with an earlier genre request still in flight.
C23_FreshAfterClear == [][C23_Clears /\ C23_Fetches]_vars

\* the first call has completed and the singleton is empty again, so clearCache
\* has run since; the second call is still in flight, and the third call waits
\* for a request of its own, queued behind it
C23_Witness ==
    /\ \A c \in 1..3 : call[c].genres
    /\ call[1].pc = "returned" /\ call[1].out = JsonData(1, 1)
    /\ genresCache = Null /\ CacheEmpty(cache)
    /\ call[2].pc = "waiting" /\ task[2].pc = "fetch"
    /\ call[3].pc = "waiting" /\ queue = <<3>>

\* clearCache empties the cache and the singleton together and leaves the
\* limiter, the units and their futures as they are
C24_Frame ==
    ClearStep =>
        /\ CacheEmpty(cache') /\ genresCache' = Null
        /\ UNCHANGED <<queue, processing, lastRequestTime, drain, task, fut, dispatched,
                       sinceFetch>>

\* a call that waits for its unit goes on only when the unit's future has
\* settled, and with what it settled with: after a clearCache as before
C24_StillSettles ==
    \A c \in Units :
        call[c].pc = "waiting" /\ call'[c].pc # "waiting" =>
            /\ Settled(c)
            /\ call'[c].out = fut[c].value
            /\ call'[c].pc = IF fut[c].state = "rejected" THEN "threw"
                             ELSE IF call[c].genres THEN "fetched" ELSE "returned"

\* C24: clearCache removes every entry of the Response Cache and empties the
\* genre singleton in one step and changes nothing else: queue, drain flag and
\* last dispatch time stay, and the queued and executing units go on to settle
\* their callers' futures.
C24_ClearFrame == [][C24_Frame /\ C24_StillSettles]_vars

\* the first call has completed and clearCache has emptied the singleton and
\* the cache since; the second unit is executing as before, the drain flag is
\* set and its caller's future is pending
C24_Witness ==
    /\ call[1].genres /\ call[2].genres
    /\ call[1].pc = "returned" /\ call[1].out = JsonData(1, 1)
    /\ genresCache = Null /\ CacheEmpty(cache)
    /\ call[2].pc = "waiting" /\ task[2].pc = "fetch" /\ fut[2].state = "pending"
    /\ processing /\ queue = <<>> /\ dispatched = <<1, 2>>
    /\ call[3].pc = "none"

\* C25: buildUrl forces sfw=true exactly when params has no sfw key: without
\* the key the URL has sfw=true, and with sfw set to a non-empty value, such
\* as 'false', the URL has that value and, unless it is the value, no sfw=true.
C25_SfwForced ==
    built.done =>
        LET sfw == built.from["sfw"]
        IN  /\ ~sfw.has => built.query["sfw"] = Param("true") /\ params["sfw"] = Own(JsString("true"))
            /\ sfw.has => params["sfw"] = sfw
            /\ sfw.has /\ sfw.val \notin {JsUndefined, JsNull, JsString("")} =>
                  /\ built.query["sfw"] = Param(sfw.val.s)
                  /\ sfw.val.s # "true" => built.query["sfw"] # Param("true")

\* buildUrl(endpoint, { sfw: 'false' }) returned a URL with sfw=false
C25_Witness ==
    /\ built.done
    /\ built.from["sfw"] = Own(JsString("false"))
    /\ built.query["sfw"] = Param("false")

\* C26: a key of params is in the URL exactly when its value is not undefined,
\* not null and not '', so 0 and false are in it; sfw too, so that a params
\* object whose sfw is undefined, null or '' gives a URL with no sfw at all.
C26_Included ==
    built.done =>
        \A k \in Keys :
            LET p == built.from[k]
                kept == p.has /\ p.val \notin {JsUndefined, JsNull, JsString("")}
            IN  /\ built.query[k].set <=> kept \/ (k = "sfw" /\ ~p.has)
                /\ kept => built.query[k] = Param(p.val.s)

\* buildUrl(endpoint, { q: 0, page: false, sfw: null }) returned a URL with
\* q=0 and page=false and without sfw
C26_Witness ==
    /\ built.done
    /\ built.from = [k \in Keys |-> IF k = "q" THEN Own(JsZero)
                                    ELSE IF k = "page" THEN Own(JsFalse) ELSE Own(JsNull)]
    /\ built.query["q"] = Param("0")
    /\ built.query["page"] = Param("false")
    /\ ~built.query["sfw"].set

\* C27: futures settle in enqueue order: of two units the one enqueued first
\* has its future resolved or rejected before the other's is, whatever succeeds
\* or fails.  (Unit u is the u-th enqueued.  The earlier future is settled by
\* the time the later unit starts, and a unit settles in a step after the one
\* that starts it.)
C27_SettleOrder ==
    \A a \in Units : \A b \in Units :
        a < b =>
            /\ Settled(b) => Settled(a)
            /\ task[b].runs > 0 => Settled(a)

\* the first unit has failed and the second has succeeded after it; the
\* third is still executing
C27_Witness ==
    /\ fut[1].state = "rejected"
    /\ fut[2].state = "resolved"
    /\ fut[3].state = "pending" /\ task[3].pc = "fetch"
    /\ dispatched = <<1, 2, 3>>

\* the last dispatch time changes only in a step that dispatches a unit, to
\* the time of that step, in which the unit starts; a unit is dispatched
\* without a wait only 350 ms or more after the dispatch before
C28_WrittenAtDispatch ==
    /\ lastRequestTime' # lastRequestTime => Dispatches
    /\ Dispatches =>
          /\ lastRequestTime' = now /\ now' = now
          /\ now - lastRequestTime >= 350
          /\ \E u \in Units : /\ dispatched' = Append(dispatched, u)
                                /\ task[u].runs = 0 /\ task'[u].runs = 1

\* a step of an executing unit (a response, a body, a backoff wait begun or
\* ended, its end) that dispatches no other unit leaves the time as it is
C28_NotAtCompletion ==
    \A u \in Units :
        task[u].runs = 1 /\ task'[u] # task[u] /\ ~Dispatches =>
            lastRequestTime' = lastRequestTime

\* a spacing wait ends 350 ms after the last dispatch, whenever the unit
\* before ended
C28_SpacingFromDispatch ==
    \A d \in Units :
        drain'[d].pc = "spacing" /\ drain[d].pc # "spacing" =>
            /\ drain'[d].wake = lastRequestTime + 350
            /\ lastRequestTime' = lastRequestTime

\* C28: the last dispatch time is written only when a unit is dispatched, after
\* any spacing wait and before the unit runs, never when a unit completes:
\* while a unit executes, retries or settles it stays, so the spacing of the
\* next dispatch is counted from the dispatch before, not from the completion.
C28_LastDispatchTime ==
    [][C28_WrittenAtDispatch /\ C28_NotAtCompletion /\ C28_SpacingFromDispatch]_vars

\* the first unit, dispatched at the start, has ended one tick later; the
\* second waits for its dispatch until 350 ms after the start, not after that end
C28_Witness ==
    /\ dispatched = <<1>>
    /\ lastRequestTime = StartTime
    /\ Settled(1)
    /\ now = StartTime + TickMs
    /\ \E d \in Units : /\ drain[d].pc = "spacing" /\ drain[d].cur = 2
                          /\ drain[d].wake = StartTime + 350

\* the enqueue call of unit u returns a pending future and settles none
C29_Returns(u) ==
    /\ fut'[u].state = "pending"
    /\ \A v \in Units : v # u => fut'[v] = fut[v]
    /\ now' = now

\* with a drain loop active the call appends the unit and does no more
C29_Busy(u) ==
    /\ queue' = Append(queue, u)
    /\ UNCHANGED <<processing, lastRequestTime, drain, task, dispatched, sinceFetch>>

\* on an idle limiter the call itself runs the drain loop up to its first
\* await: it takes the unit off the queue and, the last dispatch being 350 ms
\* old, dispatches it and calls fetch(); else it starts the spacing wait
C29_Idle(u) ==
    /\ queue = <<>> /\ queue' = <<>>
    /\ processing'
    /\ IF now - lastRequestTime >= 350
       THEN /\ dispatched' = Append(dispatched, u)
            /\ lastRequestTime' = now
            /\ task'[u].pc = "fetch" /\ task'[u].fetches = 1
            /\ IssuesFetch
       ELSE /\ ~Dispatches /\ ~IssuesFetch
            /\ task' = task
            /\ \E d \in Units : /\ drain'[d].pc = "spacing" /\ drain'[d].cur = u
                                  /\ drain'[d].wake = lastRequestTime + 350

\* C29 as amended: enqueue never blocks and returns a pending future; with a
\* drain loop active it only appends the unit, while on an idle limiter the
\* call itself starts the loop, which takes the unit and, when the last dispatch
\* is at least 350 ms old, dispatches it and initiates its request before the
\* call returns.
C29_EnqueueStarts ==
    [][\A u \in Units :
          EnqueueOf(u) => /\ C29_Returns(u)
                          /\ IF processing THEN C29_Busy(u) ELSE C29_Idle(u)]_vars

\* C29: enqueue only appends the unit and returns a pending future; no unit
\* starts executing and no request is initiated within the call, in any
\* limiter state, an idle limiter with an old last dispatch included.
C29_Original ==
    [][\A u \in Units :
          EnqueueOf(u) => /\ C29_Returns(u)
                          /\ queue' = Append(queue, u)
                          /\ ~Dispatches /\ ~IssuesFetch
                          /\ task' = task]_vars

\* the second unit was enqueued on an idle limiter (the drain loop is that of
\* its own call) more than 350 ms after the first dispatch and is executing,
\* dispatched at the present instant
C29_Witness ==
    /\ Settled(1)
    /\ dispatched = <<1, 2>>
    /\ drain[2].pc = "exec" /\ drain[2].cur = 2
    /\ task[2].pc = "fetch" /\ task[2].fetches = 1
    /\ fut[2].state = "pending"
    /\ lastRequestTime = now
    /\ queue = <<>>

\* the least wait after attempt k: 1000 * 2^(k-1)
C30_Least(k) == IF k = 1 THEN 1000 ELSE IF k = 2 THEN 2000 ELSE 4000
RECURSIVE C30_Sum(_)
C30_Sum(s) == IF s = <<>> THEN 0 ELSE Head(s) + C30_Sum(Tail(s))

\* C30: the wait before the retry that follows attempt k (k = 1, 2, 3) is
\* 1000 * 2^(k-1) ms plus a jitter of 0 to 500 ms, so it lies in [1000, 1500],
\* [2000, 2500], [4000, 4500]; the waits of one request are strictly
\* increasing whatever the jitters, and a request that has used up its retries
\* has waited 7000 to 8500 ms in backoff in all.
C30_BackoffWaits ==
    \A u \in Units :
        LET b == task[u].backoffs
        IN  /\ Len(b) = task[u].waits
            /\ Len(b) <= 3
            /\ \A k \in 1..Len(b) : b[k] >= C30_Least(k) /\ b[k] <= C30_Least(k) + 500
            /\ \A k \in 1..(Len(b) - 1) : b[k] < b[k + 1]
            /\ task[u].attempt = 4 =>
                  /\ Len(b) = 3
                  /\ C30_Sum(b) >= 7000 /\ C30_Sum(b) <= 8500
                  /\ now - lastRequestTime >= C30_Sum(b)

\* a request that failed on all four attempts, after waits of 1000, 2499 and
\* 4000 ms
C30_Witness ==
    /\ task[1].pc = "done" /\ task[1].attempt = 4
    /\ fut[1].state = "rejected"
    /\ task[1].backoffs = <<1000, 2499, 4000>>

\* the step is a cache.clear() call: no get, no set, no tick
CacheClearStep == now' = now /\ got' = got /\ \A j \in Urls : ~SetStep(j)

\* what a step may do to the entry of key k
C31_Entry(k) ==
    /\ cache'[k] # cache[k] /\ cache'[k] = NoEntry =>
          \/ GetStep(k) /\ cache[k].present /\ now > cache[k].expires
          \/ CacheClearStep /\ \A j \in Urls : cache'[j] = NoEntry
    /\ cache'[k] # cache[k] /\ cache'[k] # NoEntry => SetStep(k)
    /\ GetStep(k) =>
          /\ \A j \in Urls : j # k => cache'[j] = cache[j]
          /\ cache[k].present /\ now <= cache[k].expires => cache'[k] = cache[k]

\* C31: expiration is lazy: time alone never changes the store, and get(K) on
\* a live entry changes nothing; the entry of K is removed only by a get(K)
\* after its expiration or by clear(), and changed only by set(K, ...); a get
\* on one key leaves the entries of the other keys, expired ones too.
C31_LazyExpiry ==
    [][/\ now' # now => cache' = cache
       /\ \A k \in Urls : C31_Entry(k)]_vars

\* the entry of key 1 has expired and is still stored after a get on key 2
C31_Witness ==
    /\ cache[1].present /\ now > cache[1].expires
    /\ got.key = 2 /\ got.at = now

\* unit u has been dispatched and its request has not been answered
Hung(u) ==
    /\ task[u].pc = "fetch"
    /\ \E d \in Units : drain[d].pc = "exec" /\ drain[d].cur = u

\* while a request is unanswered the drain flag is set and every other
\* pending future belongs to a unit that is still in the queue, not started
C32_Stalled ==
    \A u \in Units :
        Hung(u) =>
            /\ processing
            /\ \A v \in Units :
                  v # u /\ fut[v].state = "pending" =>
                      /\ task[v].runs = 0
                      /\ \E i \in 1..Len(queue) : queue[i] = v

\* no passage of time ends a request, and a step that leaves the request
\* unanswered dispatches nothing, settles nothing and leaves the drain loop
\* where it is
C32_NoTimeout ==
    /\ now' # now => task' = task /\ drain' = drain /\ fut' = fut /\ queue' = queue
    /\ \A u \in Units :
          Hung(u) /\ task'[u] = task[u] =>
              /\ ~Dispatches
              /\ drain' = drain
              /\ processing'
              /\ \A v \in Units : Settled(v) <=> Settled(v)'

\* C32: there is no per-request timeout: while a dispatched unit does not
\* settle, the drain loop stays suspended on it and the drain flag set, no
\* unit enqueued behind it is dispatched and their futures do not settle.
C32_HungRequestStalls == []C32_Stalled /\ [][C32_NoTimeout]_vars

\* the first request, dispatched at the start, is unanswered at the end of the
\* horizon, with the two units enqueued behind it still in the queue
C32_Witness ==
    /\ Hung(1) /\ task[1].attempt = 1
    /\ lastRequestTime = StartTime
    /\ now + TickMs > MaxTime
    /\ queue = <<2, 3>>
    /\ fut[2].state = "pending" /\ fut[3].state = "pending"

\* the limiter is idle
Idle == queue = <<>> /\ ~processing

\* C33: when every attempt returns or fails and timers fire, every unit
\* enqueued is dispatched and its future settled, every jikanGet call returns
\* or throws, and once the callers have stopped the limiter is idle for good.
C33_Liveness ==
    /\ \A u \in Units : (fut[u].state = "pending") ~> (task[u].runs = 1 /\ Settled(u))
    /\ \A c \in Units : (call[c].pc = "waiting") ~> (call[c].pc \in {"returned", "threw"})
    /\ <>[]Idle

\* both calls have ended, the first after all four attempts, and the limiter
\* is idle
C33_Witness ==
    /\ call[1].pc = "threw" /\ task[1].attempt = 4
    /\ call[2].pc = "returned" /\ task[2].runs = 1
    /\ Idle

\* a unit in the queue has a drain loop that will take it
C34_QueueHasLoop ==
    queue # <<>> => processing /\ ActiveDrains # {}

\* the flag is cleared only on an empty queue
C34_ClearedWhenEmpty ==
    processing /\ ~processing' => queue = <<>> /\ queue' = <<>>

\* C34: whenever control is back at the event loop, a non-empty queue has the
\* drain flag set, and the flag is cleared only when the queue is empty, so a
\* unit enqueued at any moment, also while the loop is at its last item, is
\* never left in the queue with no loop to dispatch it.
C34_NoLostWakeup == []C34_QueueHasLoop /\ [][C34_ClearedWhenEmpty]_vars

\* the second unit was enqueued while the first, the last item of the loop,
\* was executing; the first has ended and the same loop holds the second, with
\* the third in the queue
C34_Witness ==
    /\ Settled(1)
    /\ dispatched = <<1, 2>>
    /\ drain[1].pc = "exec" /\ drain[1].cur = 2
    /\ queue = <<3>>
    /\ processing

\* C35: at most one unit executes at a time: while a unit is at an attempt, at
\* a body or in a backoff wait, every other unit has either ended and settled
\* or not started, so requests never overlap and a retrying request holds back
\* every unit queued behind it.
C35_Serial ==
    /\ Cardinality({u \in Units : Running(u)}) <= 1
    /\ \A u \in Units : \A v \in Units :
          Running(u) /\ v # u =>
              \/ task[v].pc = "done" /\ Settled(v) /\ v < u
              \/ /\ task[v].pc = "none" /\ task[v].runs = 0 /\ task[v].fetches = 0
                 /\ fut[v].state = "pending" => \E i \in 1..Len(queue) : queue[i] = v

\* the first request is in its second backoff wait, with the two units
\* enqueued behind it still in the queue
C35_Witness ==
    /\ task[1].pc = "backoff" /\ task[1].attempt = 2
    /\ dispatched = <<1>>
    /\ queue = <<2, 3>>
    /\ task[2].fetches = 0 /\ task[3].fetches = 0

\* the entry of the URL of k is stored and has not expired
Live(k) == cache[k].present /\ now <= cache[k].expires

\* the call that starts changes the cache at most by the eviction, in its
\* cache read, of the expired entry of its own URL
C36_StartWritesNothing ==
    \A c \in Units : \A k \in Urls :
        CallStep(c) /\ cache'[k] # cache[k] =>
            /\ k = call'[c].url /\ ~call'[c].skipCache
            /\ cache[k].present /\ ~Live(k)
            /\ cache'[k] = NoEntry

\* the step in which a call fails leaves the cache, live and expired entries
\* of its URL included, and the singleton as they are
C36_FailureWritesNothing ==
    \A c \in Units :
        call[c].pc = "waiting" /\ call'[c].pc # "waiting" /\ fut[c].state = "rejected" =>
            /\ call'[c].pc = "threw"
            /\ cache' = cache
            /\ genresCache' = genresCache

\* a getGenres call made on an empty singleton, as a failed getGenres leaves
\* it, goes to jikanGet: it reads the cache and, finding no entry, enqueues
C36_NextFetchesAgain ==
    \A c \in Units :
        GenresCallStep(c) /\ genresCache = Null =>
            /\ call'[c].pc \in {"hit", "waiting"}
            /\ ~cache[call'[c].url].present => call'[c].pc = "waiting" /\ EnqueueOf(c)

\* the singleton is empty until a getGenres call has returned
C36_EmptyUntilSuccess ==
    genresCache # Null =>
        \E c \in Units : call[c].genres /\ call[c].pc = "returned" /\ call[c].out.kind = "data"

\* C36: a jikanGet call that ends in a failure writes nothing to the cache: an
\* entry of its URL keeps value and expiration, also under skipCache; and a
\* getGenres call that fails leaves the singleton empty, so that the next
\* getGenres call fetches again.
C36_UnchangedOnError ==
    /\ []C36_EmptyUntilSuccess
    /\ [][C36_StartWritesNothing /\ C36_FailureWritesNothing /\ C36_NextFetchesAgain]_vars

\* a first getGenres call has failed and a second one, one tick later, has
\* fetched; a jikanGet call with skipCache has failed another tick later, and
\* the entry and the singleton that the second call wrote are as they were
C36_Witness ==
    /\ call[1].pc = "threw" /\ call[1].genres
    /\ call[2].pc = "returned" /\ call[2].genres
    /\ call[3].pc = "threw" /\ call[3].skipCache
    /\ dispatched = <<1, 2, 3>>
    /\ now = StartTime + 2 * GenresTickMs
    /\ Live(call[2].url)
    /\ cache[call[2].url].data = call[2].out
    /\ cache[call[2].url].expires = StartTime + GenresTickMs + 86400000
    /\ genresCache = call[2].out

\* a call that starts while another call for the same URL waits for its fetch
\* and that finds no live entry does not join it: it enqueues a unit of its own
C37_OwnUnit ==
    \A c \in Units : \A d \in Units :
        /\ CallStep(d) /\ call[c].pc = "waiting" /\ call'[d].url = call[c].url
        /\ call'[d].skipCache \/ ~Live(call[c].url)
        => /\ call'[d].pc = "waiting"
           /\ EnqueueOf(d)
           /\ fut'[c] = fut[c] /\ task'[c] = task[c]

\* a call that resumes with its result does not read the cache again: it writes
\* its own value and expiration over whatever another call has written since
C37_LaterWins ==
    \A c \in Units :
        call[c].pc = "waiting" /\ fut[c].state = "resolved" /\ call'[c].pc # "waiting" =>
            cache'[call[c].url] =
                [present |-> TRUE, data |-> fut[c].value,
                 expires |-> now + TtlMs(call[c].cacheTTL)]

\* a call that fetched has a unit and a request of its own
C37_OwnFetch ==
    \A c \in Units :
        call[c].pc = "waiting" \/ (call[c].pc = "returned" /\ fut[c].state # "none") =>
            /\ fut[c].state # "none"
            /\ Settled(c) => task[c].runs = 1 /\ task[c].fetches >= 1

\* C37: the cache is read only when a jikanGet call starts, so two calls for
\* one URL that both start before either has completed both miss; each
\* enqueues its own unit and causes its own request, and each writes the cache
\* when it completes, so that the later completion's value and expiration win.
C37_NoCoalescing ==
    []C37_OwnFetch /\ [][C37_OwnUnit /\ C37_LaterWins]_vars

\* two calls for URL 1 were both made at the start; each has fetched, the
\* second one tick after the first, and its default expiration has replaced
\* the 30 minutes of the first
C37_Witness ==
    /\ call[1].pc = "returned" /\ call[1].url = 1 /\ call[1].cacheTTL = Millis(ANIME_TTL_MS)
    /\ call[2].pc = "returned" /\ call[2].url = 1 /\ call[2].cacheTTL = Undefined
    /\ ~call[1].skipCache /\ ~call[2].skipCache
    /\ dispatched = <<1, 2>>
    /\ task[1].fetches = 1 /\ task[2].fetches = 1
    /\ now = StartTime + GetTickMs
    /\ cache[1].expires = StartTime + GetTickMs + 300000

\* clearCache cancels nothing: the calls that wait stay as they are, with
\* their units and futures
C38_NothingCancelled ==
    ClearStep => call' = call /\ fut' = fut /\ task' = task /\ queue' = queue

\* a call that resumes on an emptied cache writes the entry of its URL, and a
\* getGenres call that resumes on an emptied singleton assigns it
C38_WritesAfterClear ==
    \A c \in Units :
        /\ /\ call[c].pc = "waiting" /\ fut[c].state = "resolved"
           /\ call'[c].pc # "waiting" /\ CacheEmpty(cache)
           => /\ cache'[call[c].url].present
              /\ cache'[call[c].url].data = fut[c].value
        /\ /\ call[c].pc \in {"hit", "fetched"}
           /\ call'[c].pc = "returned" /\ genresCache = Null
           => /\ genresCache' = call[c].out
              /\ genresCache' # Null

\* C38: a jikanGet or getGenres request that was queued or in flight when
\* clearCache ran still writes its result into the cache, and for getGenres
\* into the singleton, when it completes: both can be non-empty again after
\* clearCache with no new call made, holding the result of a request made
\* before the clear.
C38_ClearRaces == [][C38_NothingCancelled /\ C38_WritesAfterClear]_vars

\* the third getGenres call returned the singleton the first had assigned, so
\* it came after the second call, which had missed; the singleton is empty, so
\* clearCache has run since; the second call has then written the entry of the
\* URL and is about to assign the singleton
C38_Witness ==
    /\ \A c \in 1..3 : call[c].genres
    /\ call[1].pc = "returned" /\ fut[1].state = "resolved"
    /\ call[3].pc = "returned" /\ fut[3].state = "none" /\ call[3].out = call[1].out
    /\ call[2].pc = "fetched"
    /\ genresCache = Null
    /\ cache[call[2].url].present /\ cache[call[2].url].data = call[2].out

\* the call got a 2xx whose body did not parse, and has gone on from there
ParseFailed(u) ==
    /\ task[u].pc \in {"backoff", "done"}
    /\ RespOk(task[u].resp.status) /\ ~task[u].resp.bodyOk

\* where such a call stands: waiting to retry after attempts 1..3, failed with
\* a NetworkError after attempt 4, never resolved
C39_ParseFailureState ==
    \A u \in Units :
        ParseFailed(u) =>
            /\ task[u].pc = "backoff" => task[u].attempt <= 3 /\ fut[u].state = "pending"
            /\ task[u].pc = "done" =>
                  /\ task[u].attempt = 4 /\ task[u].fetches = 4 /\ task[u].waits = 3
                  /\ fut[u].state = "rejected"
                  /\ fut[u].value =
                        [kind |-> "NetworkError", status |-> 0, url |-> UrlOf(u),
                         attempt |-> 0, msg |-> "Network error after", info |-> 4]

\* the step in which resp.json() fails: what the step of a rejected fetch()
\* does at the same attempt
C39_ParseFailureStep ==
    \A u \in Units :
        task[u].pc = "json" /\ ~task[u].resp.bodyOk /\ task'[u].pc # "json" =>
            IF task[u].attempt <= 3
            THEN /\ task'[u].pc = "backoff"
                 /\ task'[u].timer - now - 1000 * 2 ^ (task[u].attempt - 1) \in 0..499
                 /\ task'[u].attempt = task[u].attempt
                 /\ task'[u].waits = task[u].waits + 1
                 /\ fut'[u].state = "pending"
            ELSE /\ task'[u].pc = "done"
                 /\ fut'[u].state = "rejected"
                 /\ fut'[u].value.kind = "NetworkError"

\* C39: a 2xx response whose JSON body fails to parse is no success: it is
\* handled like a failure of the transport, with a backoff wait and a retry
\* after attempts 1..3 and a NetworkError after a parse failure on attempt 4.
C39_ParseFailure == []C39_ParseFailureState /\ [][C39_ParseFailureStep]_vars

\* four attempts answered 200 with a body that did not parse: the call has
\* failed with a NetworkError
C39_Witness ==
    /\ task[1].pc = "done" /\ task[1].attempt = 4
    /\ task[1].resp.status = 200 /\ ~task[1].resp.bodyOk
    /\ task[1].n429 = 0 /\ task[1].waits = 3
    /\ fut[1].state = "rejected" /\ fut[1].value.kind = "NetworkError"

\* the performSearch calls whose request is in flight
Searching == {p \in Units : perform[p].pc = "awaiting"}
\* a step in which performSearch call p is made
PerformStep(p) == perform[p].pc = "none" /\ perform'[p].pc # "none"
\* a step in which performSearch call p, which set the flag, leaves
PerformExits(p) ==
    /\ perform'[p].setFlag
    /\ perform[p].pc \in {"none", "awaiting"}
    /\ perform'[p].pc \in {"returned", "done", "failed"}

\* the flag is set only while a request is in flight
C40_LoadingMeansInFlight == search.loading => Searching # {}

\* at most one search request is in flight
C40_OneInFlight == Cardinality(Searching) <= 1

\* a call made while the flag is set returns: no unit, no fetch, no cache
\* access, no flag change
C40_GuardedCallReturns ==
    \A p \in Units :
        PerformStep(p) /\ search.loading =>
            /\ perform'[p].pc = "skipped"
            /\ UNCHANGED <<queue, task, fut, call, cache, drain, processing, search>>

\* the call that set the flag resets it when it leaves
C40_ExitResets == \A p \in Units : PerformExits(p) => ~search'.loading

\* the flag changes only in a performSearch call or its continuation
C40_OnlyPerformSearch ==
    search'.loading # search.loading =>
        \E p \in Units : perform'[p] # perform[p] /\ perform'[p].setFlag

\* the guard where the document holds #searchResults
C40_WithContainer ==
    /\ [](HasContainer(document) => C40_LoadingMeansInFlight /\ C40_OneInFlight)
    /\ [][/\ C40_GuardedCallReturns
          /\ C40_OnlyPerformSearch
          /\ HasContainer(document) => C40_ExitResets]_vars

\* C40: state.search.loading is true only while a performSearch request is in
\* flight; a performSearch called while it is true returns without a request, so
\* at most one search request is in flight; and the call that set the flag
\* resets it on every exit path: success, failure or early return.
C40_LoadingGuard ==
    /\ [](C40_LoadingMeansInFlight /\ C40_OneInFlight)
    /\ [][C40_GuardedCallReturns /\ C40_ExitResets]_vars

\* with #searchResults in the document: a search failed, the next one
\* succeeded, and in between a call was turned away by the flag
C40_GuardWitness ==
    /\ HasContainer(document)
    /\ perform[1].pc = "failed"
    /\ perform[2].pc = "skipped"
    /\ perform[3].pc = "done" /\ perform[3].append
    /\ ~search.loading /\ Len(search.results) = 1

\* without #searchResults: the first call returned early, the flag is set, no
\* request is in flight and the next call was turned away
C40_StuckWitness ==
    /\ ~HasContainer(document)
    /\ perform[1].pc = "returned" /\ perform[1].setFlag
    /\ perform[2].pc = "skipped"
    /\ search.loading /\ Searching = {}
    /\ \A c \in Units : call[c].pc = "none"

=============================================================================
